---- MODULE Spec2Model ----
(***************************************************************************)
(* A model of the neurosift-kerchunker workflow scripts.                   *)
(*                                                                         *)
(*   Spec        dandi_lindi.py: worker processes calling process_asset    *)
(*               against the shared object store and the per-asset file    *)
(*               locks of one host.                                        *)
(*   FairSpec    Spec with the scheduling assumptions of a crawl that is   *)
(*               re-run and whose calls run to completion.                 *)
(*   SpecKerchunk  dandi_kerchunk.py: one run of dandi_kerchunk over the   *)
(*               dandisets of dandiset_ids.txt.                            *)
(*   SpecMeta    create_dandiset_nwb_meta_files.py: one call of            *)
(*               handle_dandiset.                                          *)
(*   SpecCollect collect_all_meta.py: one run of collect_all_meta.         *)
(*   SpecUsage   get_nwb_usage_string.py: one call of get_nwb_usage_string *)
(*               through the accessors of NWBTyped.py.                     *)
(***************************************************************************)
EXTENDS Integers, Sequences, FiniteSets, TLC

VARIABLES
    store,               \* the remote object store: object key -> content (absent keys are not in the domain)
    lock,                \* /tmp/dandi_lindi_{asset_id}.lock: asset id -> holding process, or NoProc
    pc,                  \* per worker process: its position in process_asset
    asset,               \* per worker process: the asset argument of its current (or last) call
    outcome,             \* per worker process: how its last call ended
    num_retries,         \* per worker process: the retry counter of the running _upload_file_to_s3 / _download_json
    upload_calls,        \* per worker process: s3.upload_file calls made by the running _upload_file_to_s3
    gen_calls,           \* per worker process: _create_lindi_json calls made by the current process_asset
    generation_metadata, \* per worker process: the local generation_metadata of process_asset
    faultsAllowed,       \* environment: failures and kills may still happen
    archive,             \* the DANDI archive: dandiset id -> whether it is found, and its asset listing
    kerchunk,            \* the frame of dandi_kerchunk / kerchunk_dandiset
    meta,                \* the frame of create_dandiset_nwb_meta_files.handle_dandiset
    collect,             \* the frame of collect_all_meta / its handle_dandiset
    usage,               \* the frame of get_nwb_usage_string
    upload,              \* the frame of a call of _upload_file_to_s3
    pool,                \* the frame of one multiprocessing.Pool of dandi_lindi: its handle_dandiset workers
    head,                \* the frame of a caller of _remote_file_exists and the answers of the server
    gindex,              \* the frame of create_global_index and its handle_dandiset
    crawl,               \* the frame of dandi_lindi: the loop over the catalog and its pools
    script,              \* the frame of process_asset of create_nwb_usage_scripts, called again and again
    ndt,                 \* create_neurodata_types_index: the main thread and the threads of its pool
    scripts              \* create_nwb_usage_scripts: the loop over the catalog

vars == <<store, lock, pc, asset, outcome, num_retries, upload_calls, gen_calls,
          generation_metadata, faultsAllowed, archive, kerchunk, meta, collect, usage, upload, pool, head, gindex, crawl, script, ndt, scripts>>

\* the variables of the dandi_lindi workers
lindiVars == <<lock, pc, asset, outcome, num_retries, upload_calls, gen_calls,
               generation_metadata, faultsAllowed>>

\* the variables dandi_lindi does not touch
otherVars == <<archive, kerchunk, meta, collect, usage, upload, pool, head, gindex, crawl, script, ndt, scripts>>

\* the variables dandi_kerchunk does not touch, besides store and archive
notKerchunk == <<lindiVars, meta, collect, usage, upload, pool, head, gindex, crawl, script, ndt, scripts>>

\* the variables create_dandiset_nwb_meta_files does not touch, besides store and archive
notMeta == <<lindiVars, kerchunk, collect, usage, upload, pool, head, gindex, crawl, script, ndt, scripts>>

\* the variables collect_all_meta does not touch, besides store and archive
notCollect == <<lindiVars, kerchunk, meta, usage, upload, pool, head, gindex, crawl, script, ndt, scripts>>

----------------------------------------------------------------------------
(* Bounds of the model *)

NumProcs == 2

(* Program constants *)

GeneratedByVersion == 11

AcceptedVersion == 11

NumRetries == 3

force == FALSE

----------------------------------------------------------------------------
(* Processes, assets, keys *)

Procs == 1..NumProcs

NoProc == 0

\* the asset dict handle_dandiset builds for process_asset
AssetDict(id, dandiset) == [identifier |-> id, dandiset_id |-> dandiset]

\* process_asset touches only the keys and the lock file of its own asset, so the model
\* follows one asset of the catalog; the other ids only show up in wrongly stamped records
Assets == {AssetDict(<<"000003", 1>>, "000003")}

AssetIds == {a.identifier : a \in Assets}

NoMetadata == [none |-> TRUE]

file_key(a) == <<a.dandiset_id, a.identifier, "nwb.lindi.json">>

old_zarr_json_file_key(a) == <<a.dandiset_id, a.identifier, "zarr.json">>

info_file_key(a) == <<a.dandiset_id, a.identifier, "info.json">>

Keys == UNION {{file_key(a), old_zarr_json_file_key(a), info_file_key(a)} : a \in Assets}

\* _remote_file_exists for a key of the store (HEAD answered 200, or 404)
remote_file_exists(k) == k \in DOMAIN store

\* s3.upload_file / s3.copy_object: the key now holds the content
PutObject(s, k, content) == [x \in (DOMAIN s) \cup {k} |-> IF x = k THEN content ELSE s[x]]

\* s3.delete_object: the key is gone (deleting an absent key is no error)
DeleteObject(s, k) == [x \in (DOMAIN s) \ {k} |-> s[x]]

----------------------------------------------------------------------------
(* Contents *)

\* a key of a reference file system: its path components; k.endswith(suffix) looks at the last one
key_endswith(k, suffix) == k[Len(k)] = suffix

\* the reference file system the chunk-reference translator returns for an NWB file
ReferenceFileSystem ==
    [k \in {<<".zgroup">>, <<".zattrs">>, <<"data", ".zarray">>, <<"data", "0">>} |-> "ref"]

\* the order in which the keys of 'refs' stand in the JSON document
refs_keys == <<<<".zgroup">>, <<".zattrs">>, <<"data", ".zarray">>, <<"data", "0">>>>

\* the generation_metadata dict of process_asset
\* (the timing fields and the console log do not steer anything: one value stands for them)
GenerationMetadata_v10(a) ==
    [generatedBy |-> "dandi_lindi", generatedByVersion |-> GeneratedByVersion - 1,
     dandisetId |-> a.dandiset_id, assetId |-> a.identifier, generationTimestamp |-> "now"]

GenerationMetadata(a) ==
    [generatedBy |-> "dandi_lindi", generatedByVersion |-> GeneratedByVersion,
     dandisetId |-> a.dandiset_id, assetId |-> a.identifier, generationTimestamp |-> "now"]

\* what an older version of the generator stamped
StaleMetadata(a) ==
    [generatedBy |-> "dandi_lindi", generatedByVersion |-> 9,
     dandisetId |-> a.dandiset_id, assetId |-> a.identifier, generationTimestamp |-> "earlier"]

\* the reference file system _create_lindi_json writes, then stamped
LindiJson(gm) == [refs |-> ReferenceFileSystem, generationMetadata |-> gm]

\* info = {'generationMetadata': lindi_json['generationMetadata']}
InfoJson_fresh(lindi_json) ==
    [generationMetadata |->
        [lindi_json.generationMetadata EXCEPT !.generationTimestamp = "later"]]

InfoJson(lindi_json) == [generationMetadata |-> lindi_json.generationMetadata]

\* a legacy zarr.json, written by an older version
LegacyZarrJson(a) == [refs |-> ReferenceFileSystem, generationMetadata |-> StaleMetadata(a)]

\* the skip test of process_asset on a downloaded info.json
StampAccepted_v12(info) ==
    /\ "generationMetadata" \in DOMAIN info
    /\ info.generationMetadata.generatedBy = "dandi_lindi"
    /\ info.generationMetadata.generatedByVersion = AcceptedVersion + 1

StampAccepted(info) ==
    /\ "generationMetadata" \in DOMAIN info
    /\ info.generationMetadata.generatedBy = "dandi_lindi"
    /\ info.generationMetadata.generatedByVersion = AcceptedVersion

----------------------------------------------------------------------------
(* dandi_lindi.py: process_asset, one action per step of a worker process *)

TypeOK ==
    /\ DOMAIN store \subseteq Keys
    /\ lock \in [AssetIds -> Procs \cup {NoProc}]
    /\ pc \in [Procs -> {"idle", "aborted", "head_lindi", "head_info", "get_info", "head_zarr",
                         "copy", "delete", "acquire", "generate", "upload_lindi", "upload_info"}]
    /\ asset \in [Procs -> Assets]
    /\ outcome \in [Procs -> {"none", "skipped", "migrated", "locked", "done", "http_error",
                              "download_error", "copy_error", "generation_error",
                              "upload_error", "killed"}]
    /\ num_retries \in [Procs -> 0..NumRetries]
    /\ upload_calls \in [Procs -> Nat]
    /\ gen_calls \in [Procs -> Nat]
    /\ faultsAllowed \in BOOLEAN

\* the store before the first run: nothing is stamped with the current version yet
InitialStores ==
    LET options(a) ==
            {<<l, i, z>> : l \in {"absent", "stale"}, i \in {"absent", "stale"},
                           z \in {"absent", "legacy"}}
        build(choice) ==
            LET present == {k \in Keys :
                    \E a \in Assets :
                        \/ k = file_key(a) /\ choice[a][1] = "stale"
                        \/ k = info_file_key(a) /\ choice[a][2] = "stale"
                        \/ k = old_zarr_json_file_key(a) /\ choice[a][3] = "legacy"}
                owner(k) == CHOOSE a \in Assets : k[1] = a.dandiset_id /\ k[2] = a.identifier
            IN  [k \in present |->
                    IF k[3] = "info.json" THEN [generationMetadata |-> StaleMetadata(owner(k))]
                    ELSE LegacyZarrJson(owner(k))]
    IN  {build(choice) : choice \in [Assets -> options(CHOOSE a \in Assets : TRUE)]}

\* no dandi_lindi worker has started
LindiIdle ==
    /\ lock = [id \in AssetIds |-> NoProc]
    /\ pc = [p \in Procs |-> "idle"]
    /\ asset \in [Procs -> Assets]
    /\ outcome = [p \in Procs |-> "none"]
    /\ num_retries = [p \in Procs |-> NumRetries]
    /\ upload_calls = [p \in Procs |-> 0]
    /\ gen_calls = [p \in Procs |-> 0]
    /\ generation_metadata = [p \in Procs |-> NoMetadata]
    /\ faultsAllowed = TRUE

\* the frame of a script that is not running
NotRunning == [pc |-> "off"]

\* the listing dandi_lindi crawls in this model: the one asset
LindiArchive ==
    [d \in {"000003"} |->
        [found |-> TRUE, assets |-> <<[identifier |-> <<"000003", 1>>, path |-> "f.nwb"]>>]]

Init ==
    /\ store \in InitialStores
    /\ LindiIdle
    /\ scripts = NotRunning
    /\ ndt = NotRunning
    /\ script = NotRunning
    /\ crawl = NotRunning
    /\ gindex = NotRunning
    /\ head = NotRunning
    /\ pool = NotRunning
    /\ upload = NotRunning
    /\ archive = LindiArchive
    /\ kerchunk = NotRunning
    /\ meta = NotRunning
    /\ collect = NotRunning
    /\ usage = NotRunning

\* the locals of worker p after a step
Locals(p, label, how, retries, uploads, gens, gm) ==
    /\ pc' = [pc EXCEPT ![p] = label]
    /\ outcome' = [outcome EXCEPT ![p] = how]
    /\ num_retries' = [num_retries EXCEPT ![p] = retries]
    /\ upload_calls' = [upload_calls EXCEPT ![p] = uploads]
    /\ gen_calls' = [gen_calls EXCEPT ![p] = gens]
    /\ generation_metadata' = [generation_metadata EXCEPT ![p] = gm]

\* process_asset goes on to its next statement
Goto(p, label) ==
    Locals(p, label, outcome[p], NumRetries, 0, gen_calls[p], generation_metadata[p])

\* process_asset returns: handle_dandiset goes on to its next asset
Return(p, how) == Locals(p, "idle", how, NumRetries, 0, gen_calls[p], NoMetadata)

\* an exception leaves process_asset: handle_dandiset prints and re-raises, the worker ends
Raise(p, how) == Locals(p, "aborted", how, NumRetries, upload_calls[p], gen_calls[p], NoMetadata)

\* a process_asset without its finally clause
release_lock_skipped(p) == lock' = lock

\* release_lock(lock), in the finally clause
release_lock(p) == lock' = [lock EXCEPT ![asset[p].identifier] = NoProc]

\* handle_dandiset calls process_asset(asset, num=asset_index)
StartCall(p, a) ==
    /\ pc[p] = "idle"
    /\ Locals(p, IF force THEN "acquire" ELSE "head_lindi", "none", NumRetries, 0, 0, NoMetadata)
    /\ asset' = [asset EXCEPT ![p] = a]
    /\ UNCHANGED <<store, lock, faultsAllowed, otherVars>>

\* _remote_file_exists(lindi_json_url), the first operand of the `and`
HeadLindi(p) ==
    /\ pc[p] = "head_lindi"
    /\ Goto(p, IF remote_file_exists(file_key(asset[p])) THEN "head_info" ELSE "head_zarr")
    /\ UNCHANGED <<store, lock, asset, faultsAllowed, otherVars>>

\* _remote_file_exists(info_url), the second operand of the `and`
HeadInfo(p) ==
    /\ pc[p] = "head_info"
    /\ Goto(p, IF remote_file_exists(info_file_key(asset[p])) THEN "get_info" ELSE "head_zarr")
    /\ UNCHANGED <<store, lock, asset, faultsAllowed, otherVars>>

\* info = _download_json(info_url), then the stamp test: return, or fall through to the lock
GetInfo(p) ==
    /\ pc[p] = "get_info"
    /\ remote_file_exists(info_file_key(asset[p]))
    /\ IF StampAccepted(store[info_file_key(asset[p])])
       THEN Return(p, "skipped")
       ELSE Goto(p, "acquire")
    /\ UNCHANGED <<store, lock, asset, faultsAllowed, otherVars>>

\* one failed attempt of _download_json: num_retries -= 1; if num_retries == 0: raise
GetInfoFail(p) ==
    /\ pc[p] = "get_info"
    /\ faultsAllowed \/ ~remote_file_exists(info_file_key(asset[p]))
    /\ IF num_retries[p] - 1 = 0
       THEN Raise(p, "download_error")
       ELSE Locals(p, "get_info", outcome[p], num_retries[p] - 1, 0, gen_calls[p],
                   generation_metadata[p])
    /\ UNCHANGED <<store, lock, asset, faultsAllowed, otherVars>>

\* elif _remote_file_exists(old_zarr_json_url)
HeadZarr(p) ==
    /\ pc[p] = "head_zarr"
    /\ Goto(p, IF remote_file_exists(old_zarr_json_file_key(asset[p])) THEN "copy" ELSE "acquire")
    /\ UNCHANGED <<store, lock, asset, faultsAllowed, otherVars>>

\* a HEAD request answered with an error other than 404: _remote_file_exists raises
HeadError(p) ==
    /\ pc[p] \in {"head_lindi", "head_info", "head_zarr"}
    /\ faultsAllowed
    /\ Raise(p, "http_error")
    /\ UNCHANGED <<store, lock, asset, faultsAllowed, otherVars>>

\* a migration that removes the legacy object first and copies nothing
Copy_delete_first(p) ==
    /\ pc[p] = "copy"
    /\ store' = DeleteObject(store, old_zarr_json_file_key(asset[p]))
    /\ Goto(p, "delete")
    /\ UNCHANGED <<lock, asset, faultsAllowed, otherVars>>

\* s3.copy_object(old zarr.json -> nwb.lindi.json); a source that is gone is an error
Copy(p) ==
    /\ pc[p] = "copy"
    /\ IF remote_file_exists(old_zarr_json_file_key(asset[p]))
       THEN /\ store' = PutObject(store, file_key(asset[p]),
                                  store[old_zarr_json_file_key(asset[p])])
            /\ Goto(p, "delete")
       ELSE /\ UNCHANGED store
            /\ Raise(p, "copy_error")
    /\ UNCHANGED <<lock, asset, faultsAllowed, otherVars>>

\* a migration that leaves the legacy object in place
Delete_forgotten(p) ==
    /\ pc[p] = "delete"
    /\ UNCHANGED store
    /\ Return(p, "migrated")
    /\ UNCHANGED <<lock, asset, faultsAllowed, otherVars>>

\* s3.delete_object(old zarr.json); return
Delete(p) ==
    /\ pc[p] = "delete"
    /\ store' = DeleteObject(store, old_zarr_json_file_key(asset[p]))
    /\ Return(p, "migrated")
    /\ UNCHANGED <<lock, asset, faultsAllowed, otherVars>>

\* a lock that any process may take at any time
LockFree_always(id) == TRUE

\* filelock.FileLock.acquire gets the lock file only while no process holds it
LockFree(id) == lock[id] = NoProc

\* lock = acquire_lock(asset_id), acquired
AcquireLock(p) ==
    /\ pc[p] = "acquire"
    /\ LockFree(asset[p].identifier)
    /\ lock' = [lock EXCEPT ![asset[p].identifier] = p]
    /\ Goto(p, "generate")
    /\ UNCHANGED <<store, asset, faultsAllowed, otherVars>>

\* acquire_lock timed out after 1 second: it returns None and process_asset returns
AcquireTimeout(p) ==
    /\ pc[p] = "acquire"
    /\ ~LockFree(asset[p].identifier)
    /\ Return(p, "locked")
    /\ UNCHANGED <<store, lock, asset, faultsAllowed, otherVars>>

\* _create_lindi_json succeeded; generation_metadata is built and both files are written locally
Generate(p) ==
    /\ pc[p] = "generate"
    /\ Locals(p, "upload_lindi", outcome[p], NumRetries, 0, gen_calls[p] + 1,
              GenerationMetadata(asset[p]))
    /\ UNCHANGED <<store, lock, asset, faultsAllowed, otherVars>>

\* a generation failure answered by another attempt
GenerateFail_retry(p) ==
    /\ pc[p] = "generate"
    /\ faultsAllowed
    /\ Locals(p, "generate", outcome[p], NumRetries, 0, gen_calls[p] + 1, NoMetadata)
    /\ UNCHANGED <<store, lock, asset, faultsAllowed, otherVars>>

\* _create_lindi_json raised: the finally clause releases the lock, the exception goes on
GenerateFail(p) ==
    /\ pc[p] = "generate"
    /\ faultsAllowed
    /\ Locals(p, "aborted", "generation_error", NumRetries, 0, gen_calls[p] + 1, NoMetadata)
    /\ release_lock(p)
    /\ UNCHANGED <<store, asset, faultsAllowed, otherVars>>

\* the key an upload step of process_asset writes
UploadKey(p) == IF pc[p] = "upload_lindi" THEN file_key(asset[p]) ELSE info_file_key(asset[p])

\* the file it sends: tmpdir/nwb.lindi.json, then tmpdir/info.json
UploadContent(p) ==
    IF pc[p] = "upload_lindi"
    THEN LindiJson(generation_metadata[p])
    ELSE InfoJson(LindiJson(generation_metadata[p]))

\* s3.upload_file succeeded: _upload_file_to_s3 breaks out of its loop and returns
UploadOK(p) ==
    /\ pc[p] \in {"upload_lindi", "upload_info"}
    /\ store' = PutObject(store, UploadKey(p), UploadContent(p))
    /\ IF pc[p] = "upload_lindi"
       THEN /\ Goto(p, "upload_info")
            /\ UNCHANGED lock
       ELSE /\ Return(p, "done")
            /\ release_lock(p)
    /\ UNCHANGED <<asset, faultsAllowed, otherVars>>

\* a retry loop that never gives up
UploadGivesUp_never(retries) == FALSE

\* num_retries -= 1; if num_retries == 0: raise
UploadGivesUp(retries) == retries - 1 = 0

\* s3.upload_file raised
UploadFail(p) ==
    /\ pc[p] \in {"upload_lindi", "upload_info"}
    /\ faultsAllowed
    /\ IF UploadGivesUp(num_retries[p])
       THEN /\ Locals(p, "aborted", "upload_error", NumRetries, upload_calls[p] + 1,
                      gen_calls[p], NoMetadata)
            /\ release_lock(p)
       ELSE /\ Locals(p, pc[p], outcome[p], num_retries[p] - 1, upload_calls[p] + 1,
                      gen_calls[p], generation_metadata[p])
            /\ UNCHANGED lock
    /\ UNCHANGED <<store, asset, faultsAllowed, otherVars>>

\* the worker process is killed (pool terminated, job cancelled): the OS drops its file lock
Interrupt(p) ==
    /\ pc[p] \notin {"idle", "aborted"}
    /\ faultsAllowed
    /\ lock' = [id \in AssetIds |-> IF lock[id] = p THEN NoProc ELSE lock[id]]
    /\ Locals(p, "aborted", "killed", NumRetries, 0, 0, NoMetadata)
    /\ UNCHANGED <<store, asset, faultsAllowed, otherVars>>

\* the script is started again after a run that ended in an exception or a kill
RestartRun(p) ==
    /\ pc[p] = "aborted"
    /\ Locals(p, "idle", "none", NumRetries, 0, 0, NoMetadata)
    /\ UNCHANGED <<store, lock, asset, faultsAllowed, otherVars>>

\* from here on nothing fails and nothing is killed
StopFaults ==
    /\ faultsAllowed
    /\ faultsAllowed' = FALSE
    /\ UNCHANGED <<store, lock, pc, asset, outcome, num_retries, upload_calls, gen_calls,
                   generation_metadata, otherVars>>

\* the steps of a worker that go ahead when nothing fails
Progress(p) ==
    \/ HeadLindi(p)
    \/ HeadInfo(p)
    \/ GetInfo(p)
    \/ HeadZarr(p)
    \/ Copy(p)
    \/ Delete(p)
    \/ AcquireLock(p)
    \/ AcquireTimeout(p)
    \/ Generate(p)
    \/ UploadOK(p)
    \/ RestartRun(p)

Fault(p) ==
    \/ GetInfoFail(p)
    \/ HeadError(p)
    \/ GenerateFail(p)
    \/ UploadFail(p)
    \/ Interrupt(p)

Next ==
    \/ \E p \in Procs : \E a \in Assets : StartCall(p, a)
    \/ \E p \in Procs : Progress(p)
    \/ \E p \in Procs : Fault(p)
    \/ StopFaults

Spec == Init /\ [][Next]_vars

\* every call runs on, an ended run is followed by another, and every run lists the asset
FairSpec ==
    /\ Spec
    /\ \A p \in Procs : WF_vars(Progress(p))
    /\ \A p \in Procs : WF_vars(\E a \in Assets : StartCall(p, a))

----------------------------------------------------------------------------
(* Claims about dandi_lindi.process_asset *)

\* the generate-and-upload section of process_asset, between acquire_lock and release_lock
InSection(p, id) ==
    /\ pc[p] \in {"generate", "upload_lindi", "upload_info"}
    /\ asset[p].identifier = id

\* nwb.lindi.json and info.json both exist and info.json is stamped dandi_lindi, version 11
UpToDate(a) ==
    /\ file_key(a) \in DOMAIN store
    /\ info_file_key(a) \in DOMAIN store
    /\ "generationMetadata" \in DOMAIN store[info_file_key(a)]
    /\ store[info_file_key(a)].generationMetadata.generatedBy = "dandi_lindi"
    /\ store[info_file_key(a)].generationMetadata.generatedByVersion = 11

\* the positions of a call that has not got past its skip check
Checking == {"head_lindi", "head_info", "get_info"}

\* C1: for every asset id, no two worker processes are at the same time inside the
\* generate-and-upload section of process_asset for that asset id.
C1_MutualExclusion ==
    \A id \in AssetIds : \A p, q \in Procs :
        p # q => ~(InSection(p, id) /\ InSection(q, id))

\* one worker is inside the section while another one asks for the same lock
C1_Witness ==
    \E id \in AssetIds : \E p, q \in Procs :
        /\ p # q
        /\ InSection(p, id)
        /\ pc[q] = "acquire"
        /\ asset[q].identifier = id

\* C2: with force False, a call that finds nwb.lindi.json and info.json present and
\* info.json stamped dandi_lindi version 11 returns at once: it takes no lock, generates
\* nothing and leaves the remote store as it is.
C2_SkipUpToDate ==
    [][\A p \in Procs :
          (/\ pc[p] = "get_info"
           /\ UpToDate(asset[p])
           /\ pc'[p] # "get_info"
           /\ outcome'[p] \notin {"killed", "download_error"})
          => /\ pc'[p] = "idle"
             /\ outcome'[p] = "skipped"
             /\ store' = store
             /\ lock' = lock
             /\ gen_calls'[p] = 0
             /\ upload_calls'[p] = 0]_vars

\* a call has been skipped
C2_Witness == \E p \in Procs : pc[p] = "idle" /\ outcome[p] = "skipped"

\* C3: a call that completes successfully leaves the asset up to date, an asset that is
\* up to date stays so, and a call that starts on an up-to-date asset never gets past
\* its skip check: it generates nothing and uploads nothing.
C3_Idempotent ==
    [][\A p \in Procs :
          /\ (pc'[p] = "idle" /\ outcome'[p] = "done") => UpToDate(asset[p])'
          /\ \A a \in Assets :
                /\ UpToDate(a) => UpToDate(a)'
                /\ (UpToDate(a) /\ asset'[p] = a /\ pc[p] \in Checking \cup {"idle", "aborted"})
                   => /\ pc'[p] \in Checking \cup {"idle", "aborted"}
                      /\ pc'[p] \in Checking => gen_calls'[p] = 0 /\ upload_calls'[p] = 0]_vars

\* one worker has completed the asset and another call for it has been skipped
C3_Witness ==
    \E p, q \in Procs :
        /\ pc[p] = "idle" /\ outcome[p] = "done"
        /\ pc[q] = "idle" /\ outcome[q] = "skipped"
        /\ asset[p] = asset[q]

\* C4: once failures and kills have stopped, re-running process_asset for an asset
\* eventually leaves nwb.lindi.json and info.json present with info.json stamped
\* dandi_lindi version 11, whatever step earlier calls were interrupted at.
C4_Resumable == \A a \in Assets : (~faultsAllowed) ~> UpToDate(a)

\* a worker was killed in its call, failures have stopped, and a re-run completed the asset
C4_Witness ==
    \E p, q \in Procs :
        /\ ~faultsAllowed
        /\ outcome[p] = "killed"
        /\ outcome[q] = "done"
        /\ asset[p] = asset[q]
        /\ UpToDate(asset[p])

\* C5: one invocation of _upload_file_to_s3 calls s3.upload_file at most 3 times; an
\* attempt is followed by another only after a failure and only while fewer than 3 have
\* been made, and the failure of the third attempt is raised to the caller.
C5_BoundedUploadRetry ==
    [][\A p \in Procs :
          pc[p] \in {"upload_lindi", "upload_info"}
          => /\ upload_calls[p] < 3
             /\ (outcome'[p] = "upload_error") => (upload_calls'[p] = 3 /\ pc'[p] = "aborted")
             /\ (pc'[p] = pc[p] /\ upload_calls'[p] # upload_calls[p])
                => /\ upload_calls'[p] = upload_calls[p] + 1
                   /\ upload_calls'[p] < 3
                   /\ store' = store
             /\ (upload_calls[p] = 2 /\ pc'[p] = pc[p]) => upload_calls'[p] = 2]_vars

\* an upload has failed three times in a row and the failure was raised
C5_Witness == \E p \in Procs : outcome[p] = "upload_error" /\ upload_calls[p] = 3

\* C7 as claimed: a worker that gave an asset up after a failed generation had tried the
\* generation more than once.
C7_GenerationRetried ==
    \A p \in Procs : outcome[p] = "generation_error" => gen_calls[p] > 1

\* C7 as amended: process_asset calls the translator at most once; when that call fails
\* the lock is released, the exception leaves process_asset and handle_dandiset, and the
\* worker ends after that single attempt.
C7_GenerationNotRetried ==
    \A p \in Procs :
        /\ gen_calls[p] <= 1
        /\ outcome[p] = "generation_error"
           => /\ pc[p] = "aborted"
              /\ gen_calls[p] = 1
              /\ lock[asset[p].identifier] # p

\* a generation has failed and the worker has ended
C7_Witness == \E p \in Procs : outcome[p] = "generation_error" /\ pc[p] = "aborted"

\* C8: the nwb.lindi.json that process_asset uploads carries generatedBy dandi_lindi,
\* generatedByVersion 11 and the dandiset and asset ids of the asset of the call, and the
\* info.json uploaded by the same call carries the very same generationMetadata record.
C8_GenerationStamp ==
    [][\A p \in Procs :
          /\ (pc[p] = "upload_lindi" /\ pc'[p] = "upload_info")
             => LET gm == store'[file_key(asset[p])].generationMetadata
                IN  /\ gm.generatedBy = "dandi_lindi"
                    /\ gm.generatedByVersion = 11
                    /\ gm.dandisetId = asset[p].dandiset_id
                    /\ gm.assetId = asset[p].identifier
                    /\ gm = generation_metadata'[p]
          /\ (pc[p] = "upload_info" /\ pc'[p] = "upload_info")
             => generation_metadata'[p] = generation_metadata[p]
          /\ (pc[p] = "upload_info" /\ outcome'[p] = "done")
             => store'[info_file_key(asset[p])].generationMetadata = generation_metadata[p]]_vars

\* a call has uploaded both files and the store holds the same record in both
C8_Witness ==
    \E p \in Procs :
        /\ pc[p] = "idle" /\ outcome[p] = "done"
        /\ file_key(asset[p]) \in DOMAIN store
        /\ info_file_key(asset[p]) \in DOMAIN store
        /\ store[file_key(asset[p])].generationMetadata.generatedByVersion = 11
        /\ store[file_key(asset[p])].generationMetadata
              = store[info_file_key(asset[p])].generationMetadata

\* C13: with force False the manifest of an asset is generated at most once in total by
\* concurrent instances: a process that gets the asset lock after another one has
\* finished the asset does not generate it again, so no process generates a manifest for
\* an asset that is already up to date.
C13_GeneratedAtMostOnce ==
    [][\A p \in Procs :
          (pc[p] = "generate" /\ pc'[p] = "upload_lindi") => ~UpToDate(asset[p])]_vars

\* the object under key k is created, replaced or deleted by the step
KeyChanged(k) ==
    \/ (k \in DOMAIN store) # (k \in DOMAIN store')
    \/ k \in DOMAIN store /\ k \in DOMAIN store' /\ store[k] # store'[k]

\* C14: every change process_asset makes to the remote objects of an asset (upload of
\* nwb.lindi.json, upload of info.json, copy and delete of the legacy zarr.json) is made
\* by a process that holds the file lock of that asset.
C14_WritesUnderLock ==
    [][\A a \in Assets :
          (KeyChanged(file_key(a)) \/ KeyChanged(info_file_key(a))
             \/ KeyChanged(old_zarr_json_file_key(a)))
          => \E p \in Procs : /\ lock[a.identifier] = p
                              /\ asset[p] = a
                              /\ pc'[p] # pc[p]]_vars

\* the object at key k carries the stamp (dandi_lindi, 11) in its generationMetadata
Stamped(k) ==
    /\ k \in DOMAIN store
    /\ "generationMetadata" \in DOMAIN store[k]
    /\ store[k].generationMetadata.generatedBy = "dandi_lindi"
    /\ store[k].generationMetadata.generatedByVersion = 11

\* C17: starting from a store in which no info.json is stamped (dandi_lindi, 11), in
\* every state reachable through process_asset calls, interrupted ones included, an
\* info.json that carries the stamp has an nwb.lindi.json next to it that exists and
\* embeds the same stamp.
C17_ManifestBeforeInfo ==
    \A a \in Assets :
        Stamped(info_file_key(a)) =>
            /\ Stamped(file_key(a))
            /\ store[file_key(a)].generationMetadata = store[info_file_key(a)].generationMetadata

\* process p is in the legacy-migration branch of process_asset
Migrating(p) == pc[p] \in {"copy", "delete"}

\* C18: in the migration path the legacy zarr.json is copied to the nwb.lindi.json key
\* before it is deleted: while a call is in the path at least one of the two keys holds
\* the manifest, zarr.json disappears only when nwb.lindi.json is there, and the path
\* ends with nwb.lindi.json present, zarr.json absent and no manifest generated in
\* that call.
C18_MigrationOrdering ==
    /\ [](\A p \in Procs :
            Migrating(p) =>
                \/ file_key(asset[p]) \in DOMAIN store
                \/ old_zarr_json_file_key(asset[p]) \in DOMAIN store)
    /\ [][\A p \in Procs :
            /\ (pc[p] = "copy" /\ pc'[p] = "delete") =>
                  /\ old_zarr_json_file_key(asset[p]) \in DOMAIN store'
                  /\ file_key(asset[p]) \in DOMAIN store'
                  /\ store'[file_key(asset[p])] = store[old_zarr_json_file_key(asset[p])]
            /\ (pc[p] = "delete" /\ pc'[p] = "idle") =>
                  /\ outcome'[p] = "migrated"
                  /\ file_key(asset[p]) \in DOMAIN store'
                  /\ old_zarr_json_file_key(asset[p]) \notin DOMAIN store'
                  /\ store'[file_key(asset[p])] = store[file_key(asset[p])]
                  /\ gen_calls'[p] = 0
                  /\ lock' = lock
            /\ (pc[p] = "copy" /\ outcome'[p] = "copy_error") =>
                  /\ file_key(asset[p]) \in DOMAIN store'
                  /\ old_zarr_json_file_key(asset[p]) \notin DOMAIN store']_vars

\* a call has returned from the migration path
C18_Witness ==
    \E p \in Procs :
        /\ pc[p] = "idle"
        /\ outcome[p] = "migrated"
        /\ store[file_key(asset[p])] = LegacyZarrJson(asset[p])
        /\ old_zarr_json_file_key(asset[p]) \notin DOMAIN store

\* C19: once process_asset has returned or raised, the process does not hold the asset
\* lock, also when generation or an upload raised; and a call whose acquire_lock times
\* out returns without generating or uploading anything.
C19_LockReleasedOnExit ==
    /\ [](\A p \in Procs :
            /\ pc[p] \in {"idle", "aborted"} => \A id \in AssetIds : lock[id] # p
            /\ outcome[p] = "locked" => gen_calls[p] = 0 /\ upload_calls[p] = 0)
    /\ [][\A p \in Procs :
            (/\ pc[p] = "acquire"
             /\ lock[asset[p].identifier] # NoProc
             /\ pc'[p] # pc[p]) =>
                /\ pc'[p] \in {"idle", "aborted"}
                /\ pc'[p] = "idle" => outcome'[p] = "locked"
                /\ pc'[p] = "aborted" => outcome'[p] = "killed"
                /\ store' = store
                /\ lock'[asset[p].identifier] = lock[asset[p].identifier]]_vars

\* one call gave up its uploads and released the lock; another had timed out on that lock
C19_Witness ==
    \E p, q \in Procs :
        /\ pc[p] = "aborted"
        /\ outcome[p] = "upload_error"
        /\ lock[asset[p].identifier] = NoProc
        /\ outcome[q] = "locked"
        /\ pc[q] = "idle"

----------------------------------------------------------------------------
(* dandi_kerchunk.py: dandi_kerchunk and kerchunk_dandiset, the older pipeline *)

\* the longest asset listing of a dandiset in the aggregator and kerchunk models
MaxAssets == 2

\* dandiset_ids.txt
dandiset_ids == <<"000003", "000717">>

\* the hard-coded list of assets that take too long (one asset of 000717)
assets_to_skip == {<<"000717", 1>>}

\* asset.path.endswith(".nwb")
endswith_nwb(path) == path = "f.nwb"

\* the listings an archive can give for dandiset d: up to MaxAssets assets, NWB files or not
Listings(d) ==
    {[n \in DOMAIN paths |-> [identifier |-> <<d, n>>, path |-> paths[n]]] :
        paths \in UNION {[1..len -> {"f.nwb", "f.txt"}] : len \in 0..MaxAssets}}

\* the archives over a set of dandiset ids: each dandiset is unknown to the archive or has a listing
Archives(ids) ==
    LET entries(d) == {[found |-> FALSE, assets |-> <<>>]}
                        \cup {[found |-> TRUE, assets |-> l] : l \in Listings(d)}
    IN  {f \in [ids -> UNION {entries(d) : d \in ids}] : \A d \in ids : f[d] \in entries(d)}

\* the .nwb assets of an archive, as asset dicts
NwbAssetsOf(arch) ==
    UNION {{AssetDict(arch[d].assets[n].identifier, d) :
                n \in {m \in DOMAIN arch[d].assets : endswith_nwb(arch[d].assets[m].path)}} :
           d \in DOMAIN arch}

\* the keys of kerchunk_dandiset: zarr.json and info.json of an asset
k_file_key(dandiset_id, asset_id) == <<dandiset_id, asset_id, "zarr.json">>

k_info_file_key(dandiset_id, asset_id) == <<dandiset_id, asset_id, "info.json">>

\* the info.json kerchunk_dandiset writes
KerchunkInfo(dandiset_id, asset_id, asset_num) ==
    [version |-> 1, dandiset_id |-> dandiset_id, asset_id |-> asset_id, asset_num |-> asset_num]

\* the bucket before a run: any of the files of the .nwb assets may be there already
KerchunkStores(arch) ==
    LET keys == UNION {{k_file_key(a.dandiset_id, a.identifier),
                        k_info_file_key(a.dandiset_id, a.identifier)} : a \in NwbAssetsOf(arch)}
    IN  {[k \in present |->
            IF k[3] = "zarr.json" THEN [refs |-> ReferenceFileSystem]
            ELSE KerchunkInfo(k[1], k[2], k[2][2])] : present \in SUBSET keys}

KerchunkInit ==
    /\ archive \in Archives({dandiset_ids[n] : n \in DOMAIN dandiset_ids})
    /\ store \in KerchunkStores(archive)
    /\ LindiIdle
    /\ scripts = NotRunning
    /\ ndt = NotRunning
    /\ script = NotRunning
    /\ crawl = NotRunning
    /\ gindex = NotRunning
    /\ head = NotRunning
    /\ pool = NotRunning
    /\ upload = NotRunning
    /\ \E catalog \in SUBSET {dandiset_ids[n] : n \in DOMAIN dandiset_ids} :
          kerchunk = [pc |-> "for_dandiset", dandisets |-> catalog, dandiset_index |-> 1,
                      asset_num |-> 0, upload_calls |-> 0, error |-> "none",
                      dandiset_late |-> FALSE, run_late |-> FALSE, late_at |-> 0]
    /\ meta = NotRunning
    /\ collect = NotRunning
    /\ usage = NotRunning

\* the dandiset and the asset the loops are at
k_dandiset_id == dandiset_ids[kerchunk.dandiset_index]

k_asset == archive[k_dandiset_id].assets[kerchunk.asset_num]

\* for dandiset_id in dandiset_ids: look the dandiset up in the catalog of
\* fetch_all_dandisets, pass it over if it is not there, else call kerchunk_dandiset
K_ForDandiset ==
    /\ kerchunk.pc = "for_dandiset"
    /\ kerchunk' =
         IF kerchunk.dandiset_index > Len(dandiset_ids)
         THEN [kerchunk EXCEPT !.pc = "done"]
         ELSE IF k_dandiset_id \notin kerchunk.dandisets
              THEN [kerchunk EXCEPT !.dandiset_index = @ + 1]
              ELSE [kerchunk EXCEPT !.pc = "navigate", !.asset_num = 0, !.dandiset_late = FALSE]
    /\ UNCHANGED <<store, archive, notKerchunk>>

\* kerchunk_dandiset up to its loop: when navigate yields no dandiset it returns, and
\* dandi_kerchunk goes on with its time test
K_Navigate ==
    /\ kerchunk.pc = "navigate"
    /\ kerchunk' = IF ~archive[k_dandiset_id].found
                   THEN [kerchunk EXCEPT !.pc = "after_dandiset"]
                   ELSE [kerchunk EXCEPT !.pc = "for_asset"]
    /\ UNCHANGED <<store, archive, notKerchunk>>

\* for asset in dandiset.get_assets(): asset_num += 1, then the tests up to the HEAD requests
K_ForAsset ==
    /\ kerchunk.pc = "for_asset"
    /\ kerchunk' =
         IF kerchunk.asset_num = Len(archive[k_dandiset_id].assets)
         THEN [kerchunk EXCEPT !.pc = "after_dandiset"]
         ELSE LET a == archive[k_dandiset_id].assets[kerchunk.asset_num + 1]
                  next == [kerchunk EXCEPT !.asset_num = @ + 1]
              IN  IF endswith_nwb(a.path)
                  THEN IF a.identifier \in assets_to_skip
                       THEN next
                       ELSE IF /\ remote_file_exists(k_file_key(k_dandiset_id, a.identifier))
                               /\ remote_file_exists(k_info_file_key(k_dandiset_id, a.identifier))
                            THEN next
                            ELSE [next EXCEPT !.pc = "create"]
                  ELSE [next EXCEPT !.pc = "time_check"]
    /\ UNCHANGED <<store, archive, notKerchunk>>

\* a HEAD request of the existence test is answered with an error other than 404
K_HeadError ==
    /\ kerchunk.pc = "for_asset"
    /\ kerchunk.asset_num < Len(archive[k_dandiset_id].assets)
    /\ LET a == archive[k_dandiset_id].assets[kerchunk.asset_num + 1]
       IN  endswith_nwb(a.path) /\ a.identifier \notin assets_to_skip
    /\ kerchunk' = [kerchunk EXCEPT !.pc = "aborted", !.error = "http_error", !.asset_num = @ + 1]
    /\ UNCHANGED <<store, archive, notKerchunk>>

\* _create_zarr_json(asset.download_url, tmpdir + "/zarr.json")
K_CreateZarrJson ==
    /\ kerchunk.pc = "create"
    /\ kerchunk' = [kerchunk EXCEPT !.pc = "upload_zarr", !.upload_calls = 0]
    /\ UNCHANGED <<store, archive, notKerchunk>>

\* _create_zarr_json raises: nothing catches it
K_CreateZarrJsonFail ==
    /\ kerchunk.pc = "create"
    /\ kerchunk' = [kerchunk EXCEPT !.pc = "aborted", !.error = "generation_error"]
    /\ UNCHANGED <<store, archive, notKerchunk>>

\* _upload_file_to_s3 of dandi_kerchunk: the one s3.upload_file call succeeds
K_UploadOK ==
    /\ kerchunk.pc \in {"upload_zarr", "upload_info"}
    /\ IF kerchunk.pc = "upload_zarr"
       THEN /\ store' = PutObject(store, k_file_key(k_dandiset_id, k_asset.identifier),
                                  [refs |-> ReferenceFileSystem])
            /\ kerchunk' = [kerchunk EXCEPT !.pc = "upload_info", !.upload_calls = 0]
       ELSE /\ store' = PutObject(store, k_info_file_key(k_dandiset_id, k_asset.identifier),
                                  KerchunkInfo(k_dandiset_id, k_asset.identifier,
                                               kerchunk.asset_num))
            /\ kerchunk' = [kerchunk EXCEPT !.pc = "time_check", !.upload_calls = 0]
    /\ UNCHANGED <<archive, notKerchunk>>

\* _upload_file_to_s3 of dandi_kerchunk: the one s3.upload_file call raises, and the
\* exception leaves _upload_file_to_s3, kerchunk_dandiset and dandi_kerchunk
K_UploadFail ==
    /\ kerchunk.pc \in {"upload_zarr", "upload_info"}
    /\ kerchunk' = [kerchunk EXCEPT !.pc = "aborted", !.error = "upload_error",
                                    !.upload_calls = @ + 1]
    /\ UNCHANGED <<store, archive, notKerchunk>>

\* if time.time() - timer > max_time_sec: break
K_TimeCheck ==
    /\ kerchunk.pc = "time_check"
    /\ kerchunk' = [kerchunk EXCEPT !.pc = IF kerchunk.dandiset_late THEN "after_dandiset"
                                          ELSE "for_asset"]
    /\ UNCHANGED <<store, archive, notKerchunk>>

\* back in dandi_kerchunk: the run's own time limit, then the next dandiset
K_AfterDandiset ==
    /\ kerchunk.pc = "after_dandiset"
    /\ kerchunk' = IF kerchunk.run_late
                   THEN [kerchunk EXCEPT !.pc = "done"]
                   ELSE [kerchunk EXCEPT !.pc = "for_dandiset", !.dandiset_index = @ + 1]
    /\ UNCHANGED <<store, archive, notKerchunk>>

\* time passes: the dandiset's or the run's time limit is now exceeded (late_at records
\* the asset under examination at that moment: the next one while the loop is at its head)
K_TimePasses ==
    /\ kerchunk.pc \in {"navigate", "for_asset", "create", "upload_zarr", "upload_info",
                        "time_check"}
    /\ \/ /\ ~kerchunk.dandiset_late
          /\ kerchunk' = [kerchunk EXCEPT !.dandiset_late = TRUE,
                                          !.late_at = IF kerchunk.pc \in {"navigate", "for_asset"}
                                                      THEN kerchunk.asset_num + 1
                                                      ELSE kerchunk.asset_num]
       \/ /\ ~kerchunk.run_late
          /\ kerchunk' = [kerchunk EXCEPT !.run_late = TRUE]
    /\ UNCHANGED <<store, archive, notKerchunk>>

KerchunkNext ==
    \/ K_ForDandiset
    \/ K_Navigate
    \/ K_ForAsset
    \/ K_HeadError
    \/ K_CreateZarrJson
    \/ K_CreateZarrJsonFail
    \/ K_UploadOK
    \/ K_UploadFail
    \/ K_TimeCheck
    \/ K_AfterDandiset
    \/ K_TimePasses

SpecKerchunk == KerchunkInit /\ [][KerchunkNext]_vars

\* C6: in the dandi_kerchunk pipeline a failed upload of zarr.json or info.json is
\* retried: the crawl is given up because of an upload only after more than one
\* s3.upload_file call was made for that file.
C6_KerchunkUploadRetried ==
    (kerchunk.pc = "aborted" /\ kerchunk.error = "upload_error") => kerchunk.upload_calls > 1

\* C23: kerchunk_dandiset checks its time limit after every asset it examines, skipped or
\* generated: once the elapsed time exceeds max_time_sec, at most the asset under
\* examination at that moment is finished and no further asset of the dandiset is
\* HEAD-checked or processed.
C23_TimeLimitAfterEveryAsset ==
    kerchunk.dandiset_late => kerchunk.asset_num <= kerchunk.late_at

----------------------------------------------------------------------------
(* create_dandiset_nwb_meta_files.py: handle_dandiset *)

\* the generator version the aggregator takes a manifest from
MetaAcceptedVersion == 12

\* the cutoffs of the scan
MaxConsecutiveNotNwb == 20

MaxConsecutiveNotFound == 20

MaxAssetsProcessed == 100

\* the dandiset the modelled call is for
meta_dandiset_id == "000003"

\* dandi/nwb_meta/{dandiset_id}.json.gz
nwb_meta_key(dandiset_id) == <<"nwb_meta", dandiset_id, "json.gz">>

\* dandiset.get_assets_by_glob('*.nwb', 'path')
get_assets_by_glob_nwb(assets) == SelectSeq(assets, LAMBDA a : endswith_nwb(a.path))

\* zarr_json.get("generationMetadata", {}).get("generatedByVersion"); 0 stands for None
generation_version(zarr_json) ==
    IF "generationMetadata" \in DOMAIN zarr_json
    THEN IF "generatedByVersion" \in DOMAIN zarr_json.generationMetadata
         THEN zarr_json.generationMetadata.generatedByVersion
         ELSE 0
    ELSE 0

\* _get_nwb_meta_for_file: the manifest with only its metadata refs
get_nwb_meta_for_file(zarr_json) ==
    [zarr_json EXCEPT !.refs =
        [k \in {x \in DOMAIN zarr_json.refs :
                    \/ key_endswith(x, ".zattrs") \/ key_endswith(x, ".zgroup")
                    \/ key_endswith(x, ".zarray") \/ key_endswith(x, "lindi.json")}
            |-> zarr_json.refs[k]]]

\* a manifest stamped by a version-12 generator
Version12Manifest(a) ==
    LindiJson([GenerationMetadata(a) EXCEPT !.generatedByVersion = MetaAcceptedVersion])

\* a file record whose nwb_meta is made anew whatever is passed
MetaFile_regenerated(dandiset_id, asset_obj, nwb_meta) ==
    [dandiset_id |-> dandiset_id, asset_id |-> asset_obj.identifier,
     asset_path |-> asset_obj.path,
     zarr_json_url |-> file_key(AssetDict(asset_obj.identifier, dandiset_id)),
     nwb_meta |-> get_nwb_meta_for_file(
                      Version12Manifest(AssetDict(asset_obj.identifier, dandiset_id)))]

\* the file record handle_dandiset appends
MetaFile(dandiset_id, asset_obj, nwb_meta) ==
    [dandiset_id |-> dandiset_id, asset_id |-> asset_obj.identifier,
     asset_path |-> asset_obj.path,
     zarr_json_url |-> file_key(AssetDict(asset_obj.identifier, dandiset_id)),
     nwb_meta |-> nwb_meta]

\* the bucket before a call: each .nwb asset has no manifest, the manifest process_asset of
\* dandi_lindi publishes, or a version-12 manifest; the index of an earlier run may be there
MetaStores(arch) ==
    LET nwb == NwbAssetsOf(arch)
        byId(id) == CHOOSE a \in nwb : a.identifier = id
        manifests == {m \in [nwb -> {"absent", "published", "version12"}] : TRUE}
        indexes == {<<>>} \cup
                   {<<[files |-> [n \in DOMAIN ids |->
                          [dandiset_id |-> meta_dandiset_id, asset_id |-> ids[n],
                           asset_path |-> "f.nwb",
                           zarr_json_url |-> file_key(byId(ids[n])),
                           nwb_meta |-> get_nwb_meta_for_file(LegacyZarrJson(byId(ids[n])))]]]>> :
                       ids \in {q \in UNION {[1..len -> {a.identifier : a \in nwb}] :
                                                len \in 0..Cardinality(nwb)} :
                                   \A i, j \in DOMAIN q : i < j => q[i][2] < q[j][2]}}
    IN  {[k \in {file_key(a) : a \in {x \in nwb : m[x] # "absent"}}
                \cup {nwb_meta_key(meta_dandiset_id) : n \in DOMAIN ix} |->
            IF k = nwb_meta_key(meta_dandiset_id) THEN ix[1]
            ELSE LET a == CHOOSE x \in nwb : file_key(x) = k
                 IN  IF m[a] = "published" THEN LindiJson(GenerationMetadata(a))
                     ELSE Version12Manifest(a)] :
         m \in manifests, ix \in indexes}

MetaInit ==
    /\ archive \in Archives({meta_dandiset_id})
    /\ store \in MetaStores(archive)
    /\ LindiIdle
    /\ scripts = NotRunning
    /\ ndt = NotRunning
    /\ script = NotRunning
    /\ crawl = NotRunning
    /\ gindex = NotRunning
    /\ head = NotRunning
    /\ pool = NotRunning
    /\ upload = NotRunning
    /\ kerchunk = NotRunning
    /\ collect = NotRunning
    /\ usage = NotRunning
    /\ meta = [pc |-> "load_existing", dandiset_id |-> meta_dandiset_id, i |-> 0,
               files |-> <<>>, num_consecutive_not_nwb |-> 0,
               num_consecutive_not_found |-> 0, num_assets_processed |-> 0,
               existing_nwb_meta_by_asset_id |-> <<>>, downloaded |-> {},
               num_retries |-> NumRetries, error |-> "none"]

\* existing = the published index, or {'files': []}; existing_nwb_meta_by_asset_id from it
M_LoadExisting ==
    /\ meta.pc = "load_existing"
    /\ LET existing == IF remote_file_exists(nwb_meta_key(meta.dandiset_id))
                       THEN store[nwb_meta_key(meta.dandiset_id)]
                       ELSE [files |-> <<>>]
           ids == {existing.files[n].asset_id : n \in DOMAIN existing.files}
           last(id) == CHOOSE n \in DOMAIN existing.files :
                          /\ existing.files[n].asset_id = id
                          /\ \A m \in DOMAIN existing.files :
                                existing.files[m].asset_id = id => m <= n
       IN  meta' = [meta EXCEPT !.pc = "navigate",
                                !.existing_nwb_meta_by_asset_id =
                                    [id \in ids |-> existing.files[last(id)].nwb_meta]]
    /\ UNCHANGED <<store, archive, notMeta>>

\* with parsed_url.navigate(): return if the dandiset is not found, else start the scan
M_Navigate ==
    /\ meta.pc = "navigate"
    /\ meta' = IF ~archive[meta.dandiset_id].found
               THEN [meta EXCEPT !.pc = "returned"]
               ELSE [meta EXCEPT !.pc = "for_asset", !.files = <<>>,
                                 !.num_consecutive_not_nwb = 0,
                                 !.num_consecutive_not_found = 0,
                                 !.num_assets_processed = 0, !.i = 0]
    /\ UNCHANGED <<store, archive, notMeta>>

\* one turn of the loop over the .nwb assets (or its end)
M_ForAsset ==
    /\ meta.pc = "for_asset"
    /\ LET listing == get_assets_by_glob_nwb(archive[meta.dandiset_id].assets)
           break == [meta EXCEPT !.pc = "upload", !.num_retries = NumRetries]
       IN  meta' =
             IF meta.i = Len(listing) THEN break
             ELSE
               LET asset_obj == listing[meta.i + 1]
                   next == [meta EXCEPT !.i = @ + 1]
                   key == file_key(AssetDict(asset_obj.identifier, meta.dandiset_id))
                   miss == [next EXCEPT !.num_consecutive_not_nwb = 0,
                                        !.num_consecutive_not_found = @ + 1]
                   take(nwb_meta) ==
                       [next EXCEPT !.num_consecutive_not_nwb = 0,
                                    !.files = Append(@, MetaFile(meta.dandiset_id, asset_obj,
                                                                 nwb_meta)),
                                    !.num_assets_processed = @ + 1]
               IN  IF ~endswith_nwb(asset_obj.path)
                   THEN IF meta.num_consecutive_not_nwb + 1 >= MaxConsecutiveNotNwb
                        THEN [break EXCEPT !.num_consecutive_not_nwb = @ + 1]
                        ELSE [next EXCEPT !.num_consecutive_not_nwb = @ + 1]
                   ELSE IF meta.num_consecutive_not_found >= MaxConsecutiveNotFound
                        THEN [break EXCEPT !.num_consecutive_not_nwb = 0]
                   ELSE IF meta.num_assets_processed >= MaxAssetsProcessed
                        THEN [break EXCEPT !.num_consecutive_not_nwb = 0]
                   ELSE IF ~remote_file_exists(key) THEN miss
                   ELSE IF asset_obj.identifier \in DOMAIN meta.existing_nwb_meta_by_asset_id
                        THEN take(meta.existing_nwb_meta_by_asset_id[asset_obj.identifier])
                   \* zarr_json = _download_json(zarr_json_url)
                   ELSE IF generation_version(store[key]) # MetaAcceptedVersion
                        THEN [miss EXCEPT !.downloaded = @ \cup {asset_obj.identifier}]
                   ELSE [take(get_nwb_meta_for_file(store[key])) EXCEPT
                            !.downloaded = @ \cup {asset_obj.identifier}]
    /\ UNCHANGED <<store, archive, notMeta>>

\* a request raises: a HEAD answered with an error other than 404, or a download that
\* failed on each of its tries
M_RequestError ==
    /\ \/ meta.pc = "load_existing"
       \/ /\ meta.pc = "for_asset"
          /\ meta.i < Len(get_assets_by_glob_nwb(archive[meta.dandiset_id].assets))
    /\ meta' = [meta EXCEPT !.pc = "aborted", !.error = "http_error"]
    /\ UNCHANGED <<store, archive, notMeta>>

\* _upload_file_to_s3 of {dandiset_id}.json.gz: s3.upload_file succeeds
M_UploadOK ==
    /\ meta.pc = "upload"
    /\ store' = PutObject(store, nwb_meta_key(meta.dandiset_id), [files |-> meta.files])
    /\ meta' = [meta EXCEPT !.pc = "done"]
    /\ UNCHANGED <<archive, notMeta>>

\* _upload_file_to_s3 of {dandiset_id}.json.gz: s3.upload_file raises
M_UploadFail ==
    /\ meta.pc = "upload"
    /\ meta' = IF UploadGivesUp(meta.num_retries)
               THEN [meta EXCEPT !.pc = "aborted", !.error = "upload_error",
                                 !.num_retries = @ - 1]
               ELSE [meta EXCEPT !.num_retries = @ - 1]
    /\ UNCHANGED <<store, archive, notMeta>>

MetaNext ==
    \/ M_LoadExisting
    \/ M_Navigate
    \/ M_ForAsset
    \/ M_RequestError
    \/ M_UploadOK
    \/ M_UploadFail

SpecMeta == MetaInit /\ [][MetaNext]_vars

\* the .nwb assets of the dandiset that hold the manifest process_asset of dandi_lindi
\* publishes and are not in the index of the earlier run
FreshlyPublished(a) ==
    /\ a.dandiset_id = meta.dandiset_id
    /\ remote_file_exists(file_key(a))
    /\ store[file_key(a)] = LindiJson(GenerationMetadata(a))
    /\ a.identifier \notin DOMAIN meta.existing_nwb_meta_by_asset_id

\* C9: a manifest freshly published by dandi_lindi.process_asset is accepted by
\* create_dandiset_nwb_meta_files.handle_dandiset: when the call has uploaded the
\* dandiset's nwb_meta file, every .nwb asset with such a manifest that was not in the
\* existing index is listed in it (no cap or cutoff is reached at these sizes).
C9_FreshManifestIndexed ==
    meta.pc = "done" =>
        \A a \in NwbAssetsOf(archive) :
            FreshlyPublished(a) =>
                \E n \in DOMAIN store[nwb_meta_key(meta.dandiset_id)].files :
                    store[nwb_meta_key(meta.dandiset_id)].files[n].asset_id = a.identifier

----------------------------------------------------------------------------
(* create_dandiset_nwb_meta_files.py: handle_dandiset over long listings *)

\* the number of runs a long listing is made of
MaxRuns == 4

\* the lengths of a run of consecutive .nwb assets whose manifests are in the same state
ScanRunLengths == {1, 19}

\* the state of the manifest of an asset: none, the one dandi_lindi publishes (version 11),
\* or one of the version the aggregator takes
ManifestKinds == {"absent", "published", "version12"}

\* a listing in short: runs of assets of one kind
RunPatterns ==
    UNION {[1..n -> [kind : ManifestKinds, repeat : ScanRunLengths]] : n \in 1..MaxRuns}

RECURSIVE ExpandRuns(_)
\* the kind of each asset of the listing, in listing order
ExpandRuns(runs) ==
    IF runs = <<>> THEN <<>>
    ELSE [n \in 1..runs[1].repeat |-> runs[1].kind] \o ExpandRuns(Tail(runs))

\* dandiset.get_assets_by_glob('*.nwb', 'path') of a dandiset with Len(kinds) .nwb assets
LongListing(kinds) ==
    [n \in DOMAIN kinds |-> [identifier |-> <<meta_dandiset_id, n>>, path |-> "f.nwb"]]

\* the bucket with the manifests of these assets and no index of an earlier run
LongStore(kinds) ==
    LET present == {n \in DOMAIN kinds : kinds[n] # "absent"}
        a(n) == AssetDict(<<meta_dandiset_id, n>>, meta_dandiset_id)
    IN  [k \in {file_key(a(n)) : n \in present} |->
            IF kinds[k[2][2]] = "published" THEN LindiJson(GenerationMetadata(a(k[2][2])))
            ELSE Version12Manifest(a(k[2][2]))]

MetaLongInit ==
    /\ \E runs \in RunPatterns :
          /\ archive = [d \in {meta_dandiset_id} |->
                            [found |-> TRUE, assets |-> LongListing(ExpandRuns(runs))]]
          /\ store = LongStore(ExpandRuns(runs))
    /\ LindiIdle
    /\ scripts = NotRunning
    /\ ndt = NotRunning
    /\ script = NotRunning
    /\ crawl = NotRunning
    /\ gindex = NotRunning
    /\ head = NotRunning
    /\ pool = NotRunning
    /\ upload = NotRunning
    /\ kerchunk = NotRunning
    /\ collect = NotRunning
    /\ usage = NotRunning
    /\ meta = [pc |-> "load_existing", dandiset_id |-> meta_dandiset_id, i |-> 0,
               files |-> <<>>, num_consecutive_not_nwb |-> 0,
               num_consecutive_not_found |-> 0, num_assets_processed |-> 0,
               existing_nwb_meta_by_asset_id |-> <<>>, downloaded |-> {},
               num_retries |-> NumRetries, error |-> "none"]

SpecMetaLong == MetaLongInit /\ [][MetaNext]_vars

\* the .nwb assets the loop of handle_dandiset goes through
scan_listing == get_assets_by_glob_nwb(archive[meta.dandiset_id].assets)

\* the asset has a manifest the aggregator takes: it exists and is in the existing index
\* or of the accepted version
Usable(asset_obj) ==
    LET key == file_key(AssetDict(asset_obj.identifier, meta.dandiset_id))
    IN  /\ key \in DOMAIN store
        /\ \/ asset_obj.identifier \in DOMAIN meta.existing_nwb_meta_by_asset_id
           \/ generation_version(store[key]) = MetaAcceptedVersion

\* the loop was left at "too many consecutive missing files", with assets still to come
StoppedForMissing ==
    /\ meta.pc \in {"upload", "done", "aborted"}
    /\ meta.error # "http_error"
    /\ meta.i < Len(scan_listing)
    /\ meta.num_consecutive_not_found >= MaxConsecutiveNotFound

\* C20: create_dandiset_nwb_meta_files (and the aggregators with the same loop) stops
\* scanning a dandiset for too many consecutive missing files only after 20 consecutive
\* NWB assets had a missing or wrong-version manifest: the 20 assets before the stop are
\* all without a usable manifest, so misses scattered among usable assets never stop it.
C20_ConsecutiveMissingCutoff ==
    StoppedForMissing =>
        /\ meta.i >= MaxConsecutiveNotFound
        /\ \A n \in (meta.i - MaxConsecutiveNotFound + 1)..meta.i : ~Usable(scan_listing[n])

\* the scan stopped after 20 assets in a row without a usable manifest
C20_StoppedAfterTwentyInARow ==
    /\ StoppedForMissing
    /\ meta.i >= MaxConsecutiveNotFound
    /\ \A n \in (meta.i - MaxConsecutiveNotFound + 1)..meta.i : ~Usable(scan_listing[n])

----------------------------------------------------------------------------
(* create_dandiset_nwb_meta_files.py: handle_dandiset with the index of an earlier run *)

\* the number of runs a listing of this part is made of
MaxReuseRuns == 2

\* the lengths of a run: one asset, as many as the cutoff counts, as many as the cap lets in
ReuseRunLengths == {1, MaxConsecutiveNotFound, MaxAssetsProcessed}

\* the state of an asset: no manifest and not indexed, a version-12 manifest and not
\* indexed, in the index of the earlier run with its manifest still there, or in that
\* index with its manifest gone
ReuseKinds == {"absent", "version12", "indexed", "gone"}

\* the listings: runs of assets of one state each, at most one of them longer than one
ReusePatterns ==
    {runs \in UNION {[1..n -> [kind : ReuseKinds, repeat : ReuseRunLengths]] :
                        n \in 1..MaxReuseRuns} :
        Cardinality({n \in DOMAIN runs : runs[n].repeat > 1}) <= 1}

\* the bucket: the manifests, and the {dandiset_id}.json.gz of the earlier run when it
\* listed an asset
ReuseStore(kinds) ==
    LET a(n) == AssetDict(<<meta_dandiset_id, n>>, meta_dandiset_id)
        manifests == LongStore([n \in DOMAIN kinds |->
                                   IF kinds[n] = "version12" THEN "version12"
                                   ELSE IF kinds[n] = "indexed" THEN "published"
                                   ELSE "absent"])
        listed == SelectSeq([n \in DOMAIN kinds |-> n],
                            LAMBDA n : kinds[n] \in {"indexed", "gone"})
        index == [files |-> [m \in DOMAIN listed |->
                    [dandiset_id |-> meta_dandiset_id, asset_id |-> a(listed[m]).identifier,
                     asset_path |-> "f.nwb", zarr_json_url |-> file_key(a(listed[m])),
                     nwb_meta |-> get_nwb_meta_for_file(LegacyZarrJson(a(listed[m])))]]]
    IN  IF listed = <<>> THEN manifests
        ELSE PutObject(manifests, nwb_meta_key(meta_dandiset_id), index)

MetaReuseInit ==
    /\ \E runs \in ReusePatterns :
          /\ archive = [d \in {meta_dandiset_id} |->
                            [found |-> TRUE, assets |-> LongListing(ExpandRuns(runs))]]
          /\ store = ReuseStore(ExpandRuns(runs))
    /\ LindiIdle
    /\ scripts = NotRunning
    /\ ndt = NotRunning
    /\ script = NotRunning
    /\ crawl = NotRunning
    /\ gindex = NotRunning
    /\ head = NotRunning
    /\ pool = NotRunning
    /\ upload = NotRunning
    /\ kerchunk = NotRunning
    /\ collect = NotRunning
    /\ usage = NotRunning
    /\ meta = [pc |-> "load_existing", dandiset_id |-> meta_dandiset_id, i |-> 0,
               files |-> <<>>, num_consecutive_not_nwb |-> 0,
               num_consecutive_not_found |-> 0, num_assets_processed |-> 0,
               existing_nwb_meta_by_asset_id |-> <<>>, downloaded |-> {},
               num_retries |-> NumRetries, error |-> "none"]

SpecMetaReuse == MetaReuseInit /\ [][MetaNext]_vars

\* the file records of the new {dandiset_id}.json.gz for the asset at position n
NewRecords(n) ==
    {m \in DOMAIN store[nwb_meta_key(meta.dandiset_id)].files :
        store[nwb_meta_key(meta.dandiset_id)].files[m].asset_id = scan_listing[n].identifier}

\* for the assets at the positions ns: one of the earlier index whose manifest still
\* exists is in the new file with the nwb_meta it had and was not downloaded, one whose
\* manifest is gone is not in the new file; and the new file lists at most 100 assets
ReusedAt(ns) ==
    /\ \A n \in ns :
          LET id == scan_listing[n].identifier
              key == file_key(AssetDict(id, meta.dandiset_id))
          IN  id \in DOMAIN meta.existing_nwb_meta_by_asset_id =>
                 IF key \in DOMAIN store
                 THEN /\ id \notin meta.downloaded
                      /\ \E m \in NewRecords(n) :
                            store[nwb_meta_key(meta.dandiset_id)].files[m].nwb_meta
                                = meta.existing_nwb_meta_by_asset_id[id]
                 ELSE NewRecords(n) = {}
    /\ Len(store[nwb_meta_key(meta.dandiset_id)].files) <= MaxAssetsProcessed

\* C28 as stated: when handle_dandiset has uploaded the new file, every asset of the
\* earlier file whose manifest still exists is in it with its nwb_meta unchanged and was
\* not downloaded, every one whose manifest is gone is absent from it, and the file
\* lists at most 100 assets.
C28_ReuseOfEveryIndexedAsset ==
    meta.pc = "done" => ReusedAt(DOMAIN scan_listing)

\* C28: the same for the assets the scan came to before it stopped (at the end of the
\* listing, at 20 missing manifests counted or at 100 assets listed).
C28_IncrementalReuse ==
    meta.pc = "done" => ReusedAt(1..meta.i)

\* the new file carries 100 records of the earlier file and the scan stopped there
C28_Witness ==
    /\ meta.pc = "done"
    /\ meta.i < Len(scan_listing)
    /\ meta.downloaded = {}
    /\ Len(store[nwb_meta_key(meta.dandiset_id)].files) = MaxAssetsProcessed
    /\ \A n \in 1..meta.i :
          scan_listing[n].identifier \in DOMAIN meta.existing_nwb_meta_by_asset_id

----------------------------------------------------------------------------
(* collect_all_meta.py: collect_all_meta, handle_dandiset, process_asset *)

\* the generator version collect_all_meta takes a manifest from
CollectAcceptedVersion == 9

\* dandi/all_meta.json
all_meta_key == <<"dandi", "all_meta", "json">>

\* the test of process_asset: zarr.json and info.json exist and info.json carries the stamp
collect_found(a) ==
    /\ remote_file_exists(old_zarr_json_file_key(a))
    /\ remote_file_exists(info_file_key(a))
    /\ LET info == store[info_file_key(a)]
       IN  /\ "generationMetadata" \in DOMAIN info
           /\ "generatedBy" \in DOMAIN info.generationMetadata
           /\ info.generationMetadata.generatedBy = "dandi_lindi"
           /\ info.generationMetadata.generatedByVersion = CollectAcceptedVersion

\* the 'assets' record of an asset
CollectAssetRecord(a, path) ==
    [dandiset_id |-> a.dandiset_id, asset_id |-> a.identifier, asset_path |-> path]

\* k.endswith('.zattrs') / '.zarray' / '.zgroup'
item_type(k) ==
    IF key_endswith(k, ".zattrs") THEN "zattrs"
    ELSE IF key_endswith(k, ".zarray") THEN "zarray"
    ELSE IF key_endswith(k, ".zgroup") THEN "zgroup"
    ELSE "none"

\* the 'items' records of a manifest, in the order of its refs
CollectItems(a, path, zarr_json) ==
    LET keys == SelectSeq(refs_keys, LAMBDA k : k \in DOMAIN zarr_json.refs /\ item_type(k) # "none")
    IN  [n \in DOMAIN keys |->
            [dandiset_id |-> a.dandiset_id, asset_id |-> a.identifier, asset_path |-> path,
             item_type |-> item_type(keys[n]), item_key |-> keys[n],
             item_value |-> zarr_json.refs[keys[n]]]]

\* the bucket before a run: each .nwb asset has nothing, a zarr.json and info.json with
\* the version-9 stamp, or a zarr.json with the info.json of the present generator
CollectStores(arch) ==
    LET nwb == NwbAssetsOf(arch)
    IN  {[k \in UNION {{old_zarr_json_file_key(a), info_file_key(a)} :
                          a \in {x \in nwb : m[x] # "absent"}} |->
            LET a == CHOOSE x \in nwb : k \in {old_zarr_json_file_key(x), info_file_key(x)}
            IN  IF k[3] = "zarr.json" THEN LegacyZarrJson(a)
                ELSE IF m[a] = "version9" THEN InfoJson(LegacyZarrJson(a))
                ELSE InfoJson(LindiJson(GenerationMetadata(a)))] :
         m \in [nwb -> {"absent", "version9", "version11"}]}

CollectInit ==
    /\ archive \in Archives({dandiset_ids[n] : n \in DOMAIN dandiset_ids})
    /\ store \in CollectStores(archive)
    /\ LindiIdle
    /\ scripts = NotRunning
    /\ ndt = NotRunning
    /\ script = NotRunning
    /\ crawl = NotRunning
    /\ gindex = NotRunning
    /\ head = NotRunning
    /\ pool = NotRunning
    /\ upload = NotRunning
    /\ kerchunk = NotRunning
    /\ meta = NotRunning
    /\ usage = NotRunning
    /\ collect = [pc |-> "for_dandiset", dandiset_index |-> 1, i |-> 0,
                  assets |-> <<>>, items |-> <<>>, items_bound |-> FALSE,
                  num_consecutive_not_nwb |-> 0, num_consecutive_not_found |-> 0,
                  all_assets |-> <<>>, all_items |-> <<>>, download_failed |-> FALSE,
                  num_retries |-> NumRetries, error |-> "none"]

c_dandiset_id == dandiset_ids[collect.dandiset_index]

\* handle_dandiset returned None: x['assets'] raises TypeError
ReturnNone(frame) == [frame EXCEPT !.pc = "crashed", !.error = "TypeError"]

\* for dandiset in dandisets: enter handle_dandiset; after the loop, the upload
C_ForDandiset ==
    /\ collect.pc = "for_dandiset"
    /\ collect' =
         IF collect.dandiset_index > Len(dandiset_ids)
         THEN [collect EXCEPT !.pc = "upload", !.num_retries = NumRetries]
         ELSE IF ~archive[c_dandiset_id].found
              THEN ReturnNone(collect)
              ELSE [collect EXCEPT !.pc = "for_asset", !.i = 0, !.assets = <<>>,
                                   !.items = <<>>, !.items_bound = FALSE,
                                   !.num_consecutive_not_nwb = 0,
                                   !.num_consecutive_not_found = 0]
    /\ UNCHANGED <<store, archive, notCollect>>

\* one turn of the loop of handle_dandiset, process_asset included, or the return after
\* the loop and the two extend calls of collect_all_meta
C_ForAsset ==
    /\ collect.pc = "for_asset"
    /\ \E download_ok \in BOOLEAN :
        collect' =
          IF collect.i = Len(archive[c_dandiset_id].assets)
          THEN IF ~collect.items_bound
               THEN [collect EXCEPT !.pc = "crashed", !.error = "UnboundLocalError"]
               ELSE [collect EXCEPT !.pc = "for_dandiset", !.dandiset_index = @ + 1,
                                    !.all_assets = @ \o collect.assets,
                                    !.all_items = @ \o collect.items]
          ELSE
            LET asset_obj == archive[c_dandiset_id].assets[collect.i + 1]
                a == AssetDict(asset_obj.identifier, c_dandiset_id)
                next == [collect EXCEPT !.i = @ + 1]
            IN  IF ~endswith_nwb(asset_obj.path)
                THEN IF collect.num_consecutive_not_nwb + 1 >= MaxConsecutiveNotNwb
                     THEN ReturnNone([next EXCEPT !.num_consecutive_not_nwb = @ + 1])
                     ELSE [next EXCEPT !.num_consecutive_not_nwb = @ + 1]
                ELSE IF ~(collect_found(a) /\ download_ok)
                     THEN LET missed == [next EXCEPT !.num_consecutive_not_nwb = 0,
                                                     !.num_consecutive_not_found = @ + 1,
                                                     !.download_failed =
                                                         @ \/ collect_found(a)]
                          IN  IF missed.num_consecutive_not_found >= MaxConsecutiveNotFound
                              THEN ReturnNone(missed)
                              ELSE missed
                     ELSE [next EXCEPT !.num_consecutive_not_nwb = 0,
                                       !.num_consecutive_not_found = 0,
                                       !.assets = <<CollectAssetRecord(a, asset_obj.path)>>,
                                       !.items = CollectItems(a, asset_obj.path,
                                                     store[old_zarr_json_file_key(a)]),
                                       !.items_bound = TRUE]
    /\ UNCHANGED <<store, archive, notCollect>>

\* a request of process_asset raises (a HEAD answered with an error other than 404, or the
\* download of info.json failed on each of its tries): handle_dandiset re-raises
C_RequestError ==
    /\ collect.pc = "for_asset"
    /\ collect.i < Len(archive[c_dandiset_id].assets)
    /\ endswith_nwb(archive[c_dandiset_id].assets[collect.i + 1].path)
    /\ collect' = [collect EXCEPT !.pc = "crashed", !.error = "http_error"]
    /\ UNCHANGED <<store, archive, notCollect>>

\* _upload_file_to_s3 of all_meta.json: s3.upload_file succeeds
C_UploadOK ==
    /\ collect.pc = "upload"
    /\ store' = PutObject(store, all_meta_key,
                          [assets |-> collect.all_assets, items |-> collect.all_items])
    /\ collect' = [collect EXCEPT !.pc = "done"]
    /\ UNCHANGED <<archive, notCollect>>

\* _upload_file_to_s3 of all_meta.json: s3.upload_file raises
C_UploadFail ==
    /\ collect.pc = "upload"
    /\ collect' = IF UploadGivesUp(collect.num_retries)
                  THEN [collect EXCEPT !.pc = "crashed", !.error = "upload_error",
                                       !.num_retries = @ - 1]
                  ELSE [collect EXCEPT !.num_retries = @ - 1]
    /\ UNCHANGED <<store, archive, notCollect>>

CollectNext ==
    \/ C_ForDandiset
    \/ C_ForAsset
    \/ C_RequestError
    \/ C_UploadOK
    \/ C_UploadFail

SpecCollect == CollectInit /\ [][CollectNext]_vars

\* C10: the uploaded all_meta.json has an 'assets' record for every .nwb asset whose
\* zarr.json and info.json exist with the accepted stamp, and an 'items' record for every
\* .zattrs, .zarray and .zgroup ref of its manifest (no manifest download having failed).
C10_AllMetaComplete ==
    (collect.pc = "done" /\ ~collect.download_failed) =>
        \A a \in NwbAssetsOf(archive) :
            collect_found(a) =>
                /\ \E n \in DOMAIN store[all_meta_key].assets :
                      store[all_meta_key].assets[n].asset_id = a.identifier
                /\ \A k \in DOMAIN store[old_zarr_json_file_key(a)].refs :
                      item_type(k) # "none" =>
                          \E n \in DOMAIN store[all_meta_key].items :
                              /\ store[all_meta_key].items[n].asset_id = a.identifier
                              /\ store[all_meta_key].items[n].item_key = k

\* C22: collect_all_meta runs to completion and uploads all_meta.json even when
\* handle_dandiset stops early for some dandiset (not found, a cutoff, or no usable
\* manifest at all): the run ends in an exception only when a request or the upload
\* failed.
C22_SurvivesEarlyStops ==
    collect.pc = "crashed" => collect.error \in {"http_error", "upload_error"}

----------------------------------------------------------------------------
(* get_nwb_usage_string.py and the accessors of NWBTyped.py it goes through *)

\* an Optional[str] attribute of a pynwb object: <<>> is None, <<t>> is the str t
OptionalStrings == {<<>>, <<"">>, <<"text">>}

\* nwb.subject is None
NoSubject == [none |-> TRUE]

\* the pynwb Subject objects of the model (the other attributes are None)
Subjects == {[age |-> a, species |-> sp] : a \in {<<>>, <<"P90D">>}, sp \in {<<>>, <<"Mus musculus">>}}

\* the values nwb.file_create_date can have: a datetime, or a container of len datetimes
FileCreateDates ==
    {[type |-> "datetime", len |-> 1], [type |-> "str", len |-> 1]}
        \cup {[type |-> t, len |-> n] : t \in {"list", "ndarray"}, n \in 1..2}

\* the pynwb.NWBFile objects of the model: every one is accepted by NWBTyped.__init__
\* (the attributes that are not listed are None or empty)
NWBFiles ==
    {[file_create_date |-> f, experiment_description |-> e, notes |-> n, acquisition |-> a,
      subject |-> sub] :
        f \in FileCreateDates, e \in {<<>>, <<"text">>}, n \in OptionalStrings,
        a \in {<<>>, <<[name |-> "ts", type |-> "TimeSeries"]>>,
               <<[name |-> "img", type |-> "Images"]>>},
        sub \in Subjects \cup {NoSubject}}

\* NWBTyped.file_create_date: what the accessor does with the underlying value
NWBTyped_file_create_date(v) ==
    IF v.type = "datetime" THEN [raised |-> "none"]
    ELSE IF v.type \in {"list", "tuple"}
         THEN IF v.len = 1 THEN [raised |-> "none"] ELSE [raised |-> "AssertionError"]
         ELSE [raised |-> "RecursionError"]

\* NWBTyped.experiment_description: assert isinstance(self.nwb.experiment_description, str)
NWBTyped_experiment_description(v) ==
    IF v = <<>> THEN [raised |-> "AssertionError"] ELSE [raised |-> "none"]

\* NWBTyped.notes: None becomes ""
NWBTyped_notes(v) == IF v = <<>> THEN "" ELSE v[1]

\* NWBTyped.subject: assert isinstance(self.nwb.subject, Subject)
NWBTyped_subject(v) ==
    IF v = NoSubject THEN [raised |-> "AssertionError"] ELSE [raised |-> "none"]

\* the truth value of an Optional[str] in an if
Truthy(v) == v # <<>> /\ v[1] # ""

\* one line of the script: the expression and what is written behind it
UsageLine(expr, text) == [expr |-> expr, text |-> text]

\* get_object_string: a block for a TimeSeries or TimeIntervals, "" (here <<>>) otherwise
get_object_string(obj) ==
    IF obj.type = "TimeSeries" THEN <<UsageLine(obj.name, "TimeSeries")>>
    ELSE IF obj.type = "TimeIntervals" THEN <<UsageLine(obj.name, "TimeIntervals")>>
    ELSE <<>>

UsageInit ==
    /\ store = <<>>
    /\ archive = LindiArchive
    /\ LindiIdle
    /\ scripts = NotRunning
    /\ ndt = NotRunning
    /\ script = NotRunning
    /\ crawl = NotRunning
    /\ gindex = NotRunning
    /\ head = NotRunning
    /\ pool = NotRunning
    /\ upload = NotRunning
    /\ kerchunk = NotRunning
    /\ meta = NotRunning
    /\ collect = NotRunning
    /\ \E f \in NWBFiles :
          usage = [pc |-> "header", nwb |-> f, s |-> <<>>, object_strings |-> <<>>,
                   error |-> "none"]

\* the variables get_nwb_usage_string does not touch
notUsage == <<store, archive, lindiVars, kerchunk, meta, collect, upload, pool, head, gindex, crawl, script, ndt, scripts>>

\* an exception leaves get_nwb_usage_string
UsageRaise(error) == [usage EXCEPT !.pc = "raised", !.error = error]

\* lines 8-23: the required fields, nwb.file_create_date (line 17) and
\* nwb.experiment_description (line 20) among them
U_Header ==
    /\ usage.pc = "header"
    /\ LET fcd == NWBTyped_file_create_date(usage.nwb.file_create_date)
           exd == NWBTyped_experiment_description(usage.nwb.experiment_description)
           line17 == <<UsageLine("nwb.file_create_date", "datetime")>>
           line20 == <<UsageLine("nwb.experiment_description",
                                 usage.nwb.experiment_description[1])>>
       IN  usage' = IF fcd.raised # "none" THEN UsageRaise(fcd.raised)
                    ELSE IF exd.raised # "none"
                         THEN [UsageRaise(exd.raised) EXCEPT !.s = @ \o line17]
                    ELSE [usage EXCEPT !.pc = "optional", !.s = @ \o line17 \o line20]
    /\ UNCHANGED notUsage

\* lines 24-47: the optional text fields, written when they are not empty
U_Optional ==
    /\ usage.pc = "optional"
    /\ usage' = [usage EXCEPT !.pc = "containers",
                              !.s = IF NWBTyped_notes(usage.nwb.notes) # ""
                                    THEN @ \o <<UsageLine("nwb.notes",
                                                          NWBTyped_notes(usage.nwb.notes))>>
                                    ELSE @]
    /\ UNCHANGED notUsage

\* lines 48-137: one line per object of each container, and its object string
U_Containers ==
    /\ usage.pc = "containers"
    /\ LET acq == usage.nwb.acquisition
       IN  usage' = [usage EXCEPT
                        !.pc = "subject",
                        !.s = @ \o [n \in DOMAIN acq |-> UsageLine(acq[n].name, acq[n].type)],
                        !.object_strings =
                            IF acq # <<>> THEN @ \o get_object_string(acq[1]) ELSE @]
    /\ UNCHANGED notUsage

\* lines 138-139: if nwb.subject
U_Subject ==
    /\ usage.pc = "subject"
    /\ LET sub == NWBTyped_subject(usage.nwb.subject)
       IN  usage' = IF sub.raised # "none" THEN UsageRaise(sub.raised)
                    ELSE [usage EXCEPT !.pc = "subject_fields",
                                       !.s = @ \o <<UsageLine("nwb.subject", "Subject")>>]
    /\ UNCHANGED notUsage

\* lines 140-188: the tables (none in the modelled files), then the fields of nwb.subject
U_SubjectFields ==
    /\ usage.pc = "subject_fields"
    /\ LET sub == NWBTyped_subject(usage.nwb.subject)
           line(expr, v) == IF Truthy(v) THEN <<UsageLine(expr, v[1])>> ELSE <<>>
       IN  usage' = IF sub.raised # "none" THEN UsageRaise(sub.raised)
                    ELSE [usage EXCEPT
                            !.pc = "objects",
                            !.s = @ \o line("nwb.subject.age", usage.nwb.subject.age)
                                    \o line("nwb.subject.species", usage.nwb.subject.species)]
    /\ UNCHANGED notUsage

\* lines 190-196: the object strings are appended and s is returned
U_Return ==
    /\ usage.pc = "objects"
    /\ usage' = [usage EXCEPT !.pc = "returned", !.s = @ \o usage.object_strings]
    /\ UNCHANGED notUsage

UsageNext ==
    \/ U_Header
    \/ U_Optional
    \/ U_Containers
    \/ U_Subject
    \/ U_SubjectFields
    \/ U_Return

SpecUsage == UsageInit /\ [][UsageNext]_vars

\* C11: get_nwb_usage_string returns a script for every accepted file: a call for a
\* file without subject metadata (its file_create_date and experiment_description being
\* readable) never raises, and once it has passed the subject lines it goes on to return
\* a script without them.
C11_UsageWithoutSubject ==
    (/\ usage.nwb.subject = NoSubject
     /\ NWBTyped_file_create_date(usage.nwb.file_create_date).raised = "none"
     /\ NWBTyped_experiment_description(usage.nwb.experiment_description).raised = "none")
        => usage.pc # "raised"

\* C27: NWBTyped.file_create_date terminates for every underlying value: it returns the
\* datetime for a datetime and for a one-element list, tuple or ndarray holding a
\* datetime, and raises TypeError for a value of any other type (it never runs into the
\* recursion limit).
C27_FileCreateDateTerminates ==
    usage.pc # "header" =>
        LET v == usage.nwb.file_create_date
        IN  /\ usage.error # "RecursionError"
            /\ (v.type = "datetime" \/ (v.type \in {"list", "tuple", "ndarray"} /\ v.len = 1))
                  => /\ Len(usage.s) >= 1
                     /\ usage.s[1] = UsageLine("nwb.file_create_date", "datetime")
            /\ v.type \notin {"datetime", "list", "tuple", "ndarray"}
                  => usage.pc = "raised" /\ usage.error = "TypeError"

----------------------------------------------------------------------------
(* _upload_file_to_s3 of dandi_lindi.py, as a call of its own: content type, then the upload *)

\* the longest chain of extensions of a file name of the model
MaxExtensions == 2

\* file names are strings; the model writes a string as the sequence of its characters
dot_html == <<".", "h", "t", "m", "l">>

dot_js == <<".", "j", "s">>

dot_css == <<".", "c", "s", "s">>

dot_png == <<".", "p", "n", "g">>

dot_jpg == <<".", "j", "p", "g">>

dot_svg == <<".", "s", "v", "g">>

dot_json == <<".", "j", "s", "o", "n">>

dot_gz == <<".", "g", "z">>

\* what file names of the model are made of
Stems == {<<"x">>, <<"u", "s", "a", "g", "e">>}

Extensions ==
    {dot_html, dot_js, dot_css, dot_png, dot_jpg, dot_svg, dot_json, dot_gz,
     <<".", "p", "y">>, <<".", "j", "s", "o">>, <<"j", "s">>, <<".", "h", "t", "m">>,
     <<".", "g", "z", "i", "p">>}

RECURSIVE FileNames(_)
FileNames(n) ==
    IF n = 0 THEN Stems
    ELSE FileNames(n - 1) \cup {x \o e : x \in FileNames(n - 1), e \in Extensions}

\* str.endswith
endswith_anywhere(s, suffix) ==
    \E i \in 1..Len(s) : i + Len(suffix) - 1 <= Len(s) /\ SubSeq(s, i, i + Len(suffix) - 1) = suffix

endswith(s, suffix) ==
    /\ Len(suffix) <= Len(s)
    /\ SubSeq(s, Len(s) - Len(suffix) + 1, Len(s)) = suffix

\* the if / elif chain of _upload_file_to_s3 ("None" is None)
content_type(fname) ==
    IF endswith(fname, dot_html) THEN "text/html"
    ELSE IF endswith(fname, dot_js) THEN "application/javascript"
    ELSE IF endswith(fname, dot_css) THEN "text/css"
    ELSE IF endswith(fname, dot_png) THEN "image/png"
    ELSE IF endswith(fname, dot_jpg) THEN "image/jpeg"
    ELSE IF endswith(fname, dot_svg) THEN "image/svg+xml"
    ELSE IF endswith(fname, dot_json) THEN "application/json"
    ELSE IF endswith(fname, dot_gz) THEN "application/gzip"
    ELSE "None"

\* extra_args: the dict as the set of its items
extra_args(fname) ==
    IF content_type(fname) # "None" THEN {<<"ContentType", content_type(fname)>>} ELSE {}

\* the key the modelled call uploads to
upload_object_key == <<"bucket", "object_key", "uploaded">>

UploadInit ==
    /\ store = <<>>
    /\ archive = LindiArchive
    /\ LindiIdle
    /\ scripts = NotRunning
    /\ ndt = NotRunning
    /\ script = NotRunning
    /\ crawl = NotRunning
    /\ gindex = NotRunning
    /\ head = NotRunning
    /\ pool = NotRunning
    /\ kerchunk = NotRunning
    /\ meta = NotRunning
    /\ collect = NotRunning
    /\ usage = NotRunning
    /\ \E f \in FileNames(MaxExtensions) :
          upload = [pc |-> "called", fname |-> f, extra_args |-> {},
                    num_retries |-> NumRetries, error |-> "none"]

\* the variables the call does not touch, besides store
notUpload == <<archive, lindiVars, kerchunk, meta, collect, usage, pool, head, gindex, crawl, script, ndt, scripts>>

\* lines 282-303: content_type, extra_args, num_retries = 3
UP_ContentType ==
    /\ upload.pc = "called"
    /\ upload' = [upload EXCEPT !.pc = "uploading", !.extra_args = extra_args(upload.fname),
                                !.num_retries = NumRetries]
    /\ UNCHANGED <<store, notUpload>>

\* s3.upload_file(fname, bucket, object_key, ExtraArgs=extra_args) succeeds
UP_UploadOK ==
    /\ upload.pc = "uploading"
    /\ store' = PutObject(store, upload_object_key,
                          [fname |-> upload.fname, ExtraArgs |-> upload.extra_args])
    /\ upload' = [upload EXCEPT !.pc = "done"]
    /\ UNCHANGED notUpload

\* s3.upload_file raises: sleep, num_retries -= 1, raise at 0
UP_UploadFail ==
    /\ upload.pc = "uploading"
    /\ upload' = IF UploadGivesUp(upload.num_retries)
                 THEN [upload EXCEPT !.pc = "raised", !.error = "upload_error",
                                     !.num_retries = @ - 1]
                 ELSE [upload EXCEPT !.num_retries = @ - 1]
    /\ UNCHANGED <<store, notUpload>>

UploadNext ==
    \/ UP_ContentType
    \/ UP_UploadOK
    \/ UP_UploadFail

SpecUpload == UploadInit /\ [][UploadNext]_vars

\* the table of the documentation: suffix, content type
ContentTypeTable ==
    {<<dot_html, "text/html">>, <<dot_js, "application/javascript">>, <<dot_css, "text/css">>,
     <<dot_png, "image/png">>, <<dot_jpg, "image/jpeg">>, <<dot_svg, "image/svg+xml">>,
     <<dot_json, "application/json">>, <<dot_gz, "application/gzip">>}

\* the rows of the table whose suffix the file name ends with
MatchingRows(fname) == {r \in ContentTypeTable : endswith(fname, r[1])}

\* C12: the ContentType passed to s3.upload_file is the one of the table row whose
\* suffix the local file name ends with; at most one row matches, so the order of the
\* tests does not matter; no ContentType is passed when no row matches; x.json.gz goes
\* out as application/gzip and usage.py without content type.
C12_ContentTypeInference ==
    upload.pc # "called" =>
        /\ Cardinality(MatchingRows(upload.fname)) <= 1
        /\ \A r \in MatchingRows(upload.fname) : upload.extra_args = {<<"ContentType", r[2]>>}
        /\ MatchingRows(upload.fname) = {} => upload.extra_args = {}
        /\ upload.fname = <<"x">> \o dot_json \o dot_gz =>
              upload.extra_args = {<<"ContentType", "application/gzip">>}
        /\ upload.fname = <<"u", "s", "a", "g", "e", ".", "p", "y">> => upload.extra_args = {}
        /\ upload.pc = "done" => store[upload_object_key].ExtraArgs = upload.extra_args

C12_Witness ==
    /\ upload.pc = "done"
    /\ upload.fname = <<"x">> \o dot_json \o dot_gz
    /\ store[upload_object_key].ExtraArgs = {<<"ContentType", "application/gzip">>}

----------------------------------------------------------------------------
(* dandi_lindi.py: the pool of handle_dandiset workers started for one dandiset *)

\* the largest pool of the model: num_parallel is 6 in dandi_lindi, handle_dandiset takes
\* it as its modulus argument, and the model runs pools of 1..MaxParallel workers
MaxParallel == 2

\* the dandiset the pool is started for
pool_dandiset_id == "000003"

\* the modulus_offset values: range(num_parallel)
Workers == 0..(pool.num_parallel - 1)

\* a listing entry with repeat = n stands for n consecutive assets of that kind; only
\* assets that are not NWB files come in runs
RunLengths == {1, MaxConsecutiveNotNwb - 1, MaxConsecutiveNotNwb}

PoolListings ==
    LET kinds == {[path |-> "f.nwb", repeat |-> 1]}
                    \cup {[path |-> "f.txt", repeat |-> r] : r \in RunLengths}
    IN  {[n \in DOMAIN ks |-> [identifier |-> <<pool_dandiset_id, n>>, path |-> ks[n].path,
                               repeat |-> ks[n].repeat]] :
            ks \in UNION {[1..len -> kinds] : len \in 0..MaxAssets}}

\* if asset_index % modulus != modulus_offset: continue
Mine_all(asset_index, modulus, modulus_offset) == TRUE

Mine(asset_index, modulus, modulus_offset) == asset_index % modulus = modulus_offset

\* locals whose counter of assets that are not NWB files starts at 1
WorkerStart_counting ==
    [pc |-> "navigate", pos |-> 0, asset_index |-> 0, num_consecutive_not_nwb |-> 1,
     num_assets_processed |-> 0, late |-> FALSE, exit |-> "none"]

\* the locals of handle_dandiset when it is called
WorkerStart ==
    [pc |-> "navigate", pos |-> 0, asset_index |-> 0, num_consecutive_not_nwb |-> 0,
     num_assets_processed |-> 0, late |-> FALSE, exit |-> "none"]

PoolInit ==
    /\ store = <<>>
    /\ archive \in {[d \in {pool_dandiset_id} |-> [found |-> FALSE, assets |-> <<>>]]}
                     \cup {[d \in {pool_dandiset_id} |-> [found |-> TRUE, assets |-> l]] :
                              l \in PoolListings}
    /\ LindiIdle
    /\ scripts = NotRunning
    /\ ndt = NotRunning
    /\ script = NotRunning
    /\ crawl = NotRunning
    /\ gindex = NotRunning
    /\ head = NotRunning
    /\ kerchunk = NotRunning
    /\ meta = NotRunning
    /\ collect = NotRunning
    /\ usage = NotRunning
    /\ upload = NotRunning
    /\ \E n \in 1..MaxParallel :
          pool = [num_parallel |-> n, workers |-> [w \in 0..(n - 1) |-> WorkerStart],
                  calls |-> {}]

\* the variables the pool does not touch, besides store
notPool == <<archive, lindiVars, kerchunk, meta, collect, usage, upload, head, gindex, crawl, script, ndt, scripts>>

pool_listing == archive[pool_dandiset_id].assets

\* worker w goes on with new locals
WorkerStep(w, locals) == pool' = [pool EXCEPT !.workers[w] = locals]

\* handle_dandiset returns
WorkerReturn(locals, why) == [locals EXCEPT !.pc = "returned", !.exit = why]

\* with parsed_url.navigate(): return if the dandiset is not found
P_Navigate(w) ==
    /\ w \in Workers
    /\ pool.workers[w].pc = "navigate"
    /\ WorkerStep(w, IF ~archive[pool_dandiset_id].found
                     THEN WorkerReturn(pool.workers[w], "not_found")
                     ELSE [pool.workers[w] EXCEPT !.pc = "loop"])
    /\ UNCHANGED <<store, notPool>>

\* one turn of the loop up to the call of process_asset (a run of assets that are not
\* NWB files is taken in one step), or the end of the loop
P_ForAsset(w) ==
    /\ w \in Workers
    /\ pool.workers[w].pc = "loop"
    /\ LET me == pool.workers[w]
       IN  IF me.pos = Len(pool_listing)
           THEN /\ WorkerStep(w, WorkerReturn(me, "end"))
           ELSE LET asset_obj == pool_listing[me.pos + 1]
                    next == [me EXCEPT !.pos = @ + 1]
                IN  IF ~endswith_nwb(asset_obj.path)
                    THEN IF me.num_consecutive_not_nwb + asset_obj.repeat >= MaxConsecutiveNotNwb
                         THEN WorkerStep(w, WorkerReturn(
                                  [next EXCEPT !.num_consecutive_not_nwb = MaxConsecutiveNotNwb],
                                  "cutoff"))
                         ELSE WorkerStep(w, [next EXCEPT !.num_consecutive_not_nwb =
                                                            @ + asset_obj.repeat])
                    ELSE IF ~Mine(me.asset_index, pool.num_parallel, w)
                         THEN WorkerStep(w, [next EXCEPT !.num_consecutive_not_nwb = 0,
                                                         !.asset_index = @ + 1])
                         ELSE pool' = [pool EXCEPT
                                         !.workers[w] = [next EXCEPT !.pc = "process",
                                                                     !.num_consecutive_not_nwb = 0],
                                         !.calls = @ \cup {<<w, asset_obj.identifier>>}]
    /\ UNCHANGED <<store, notPool>>

\* process_asset has generated the manifest and uploads nwb.lindi.json; info.json is
\* still to be uploaded
P_UploadLindiJson(w) ==
    /\ w \in Workers
    /\ pool.workers[w].pc = "process"
    /\ LET a == AssetDict(pool_listing[pool.workers[w].pos].identifier, pool_dandiset_id)
       IN  store' = PutObject(store, file_key(a), LindiJson(GenerationMetadata(a)))
    /\ WorkerStep(w, [pool.workers[w] EXCEPT !.pc = "process_info"])
    /\ UNCHANGED notPool

\* process_asset returns, without an upload (the asset is up to date, or the lock is
\* not free) or with the upload of info.json after that of the manifest; then the time
\* limit
P_ProcessAssetReturns(w) ==
    /\ w \in Workers
    /\ pool.workers[w].pc \in {"process", "process_info"}
    /\ LET me == pool.workers[w]
           a == AssetDict(pool_listing[me.pos].identifier, pool_dandiset_id)
           counted == [me EXCEPT !.num_assets_processed = @ + 1]
       IN  /\ IF me.pc = "process_info"
              THEN store' = PutObject(store, info_file_key(a),
                                      InfoJson(LindiJson(GenerationMetadata(a))))
              ELSE UNCHANGED store
           /\ WorkerStep(w, IF me.late THEN WorkerReturn(counted, "time_limit")
                            ELSE [counted EXCEPT !.pc = "loop", !.asset_index = @ + 1])
    /\ UNCHANGED notPool

\* process_asset raises, before its uploads or between them (the manifest is then in
\* the bucket without its info.json): handle_dandiset prints and re-raises
P_ProcessAssetRaises(w) ==
    /\ w \in Workers
    /\ pool.workers[w].pc \in {"process", "process_info"}
    /\ WorkerStep(w, [pool.workers[w] EXCEPT !.pc = "raised", !.exit = "exception"])
    /\ UNCHANGED <<store, notPool>>

\* time passes: max_time_sec is now exceeded for worker w
P_TimePasses(w) ==
    /\ w \in Workers
    /\ pool.workers[w].pc \in {"loop", "process", "process_info"}
    /\ ~pool.workers[w].late
    /\ WorkerStep(w, [pool.workers[w] EXCEPT !.late = TRUE])
    /\ UNCHANGED <<store, notPool>>

PoolNext ==
    \E w \in 0..(MaxParallel - 1) :
        \/ P_Navigate(w)
        \/ P_ForAsset(w)
        \/ P_UploadLindiJson(w)
        \/ P_ProcessAssetReturns(w)
        \/ P_ProcessAssetRaises(w)
        \/ P_TimePasses(w)

SpecPool == PoolInit /\ [][PoolNext]_vars

\* the running index of the NWB asset at position pos: the NWB assets before it
RunningIndex(pos) == Cardinality({m \in 1..(pos - 1) : endswith_nwb(pool_listing[m].path)})

\* the positions of the NWB assets of the listing
NwbPositions == {m \in DOMAIN pool_listing : endswith_nwb(pool_listing[m].path)}

\* no asset goes to two workers, and each goes to the worker of its running index
Partitioned ==
    /\ \A c1, c2 \in pool.calls : c1[2] = c2[2] => c1[1] = c2[1]
    /\ \A c \in pool.calls : c[1] = RunningIndex(c[2][2]) % pool.num_parallel

\* all workers have ended, none of them by one of the given exits
AllEndedBut(exits) ==
    \A w \in Workers : /\ pool.workers[w].pc \in {"returned", "raised"}
                       /\ pool.workers[w].exit \notin exits

\* every NWB asset of the listing was passed to process_asset
AllHandled == \A m \in NwbPositions : \E c \in pool.calls : c[2] = pool_listing[m].identifier

\* C15 as stated: the workers partition the NWB assets by running index modulo
\* num_parallel, and when no worker left by the time limit or the cutoff, every NWB asset
\* was handled by some worker.
C15_PartitionNoTimeLimitOrCutoff ==
    /\ Partitioned
    /\ AllEndedBut({"time_limit", "cutoff"}) => AllHandled

\* the positions of the NWB assets that worker w has passed to process_asset
HandledBy(w) == {c[2][2] : c \in {x \in pool.calls : x[1] = w}}

\* the share of worker w, up to position pos: the NWB assets whose running index modulo
\* num_parallel is w
ShareUpTo(w, pos) ==
    {m \in NwbPositions : m <= pos /\ RunningIndex(m) % pool.num_parallel = w}

\* C15: the workers partition the NWB assets by running index modulo num_parallel: no
\* asset is handled by two workers, and each worker has handled exactly the assets of
\* its share up to the position where it stands. A worker that comes to the end of the
\* listing has handled its whole share. A worker leaves earlier at the time limit, at
\* the cutoff, or with the exception that process_asset raised for an asset of its share
\* and handle_dandiset re-raises: the assets of its share behind that position are then
\* handled by none. When every worker came to the end of the listing, every NWB asset
\* was handled by exactly one worker.
C15_WorkerPartition ==
    /\ Partitioned
    /\ \A w \in Workers :
          LET me == pool.workers[w]
          IN  /\ HandledBy(w) = ShareUpTo(w, me.pos)
              /\ me.exit = "end" => me.pos = Len(pool_listing)
              /\ me.exit \in {"time_limit", "exception"} => me.pos \in ShareUpTo(w, me.pos)
              /\ me.exit = "exception" => me.pc = "raised"
              /\ me.pc \in {"returned", "raised"} =>
                    \A m \in ShareUpTo(w, Len(pool_listing)) :
                        m > me.pos => \A c \in pool.calls : c[2] # pool_listing[m].identifier
    /\ (\A w \in Workers : pool.workers[w].exit = "end") => AllHandled

\* two workers have come to the end of a listing with two NWB assets, one each
C15_Witness ==
    /\ pool.num_parallel >= 2
    /\ AllEndedBut({"time_limit", "cutoff", "exception", "not_found"})
    /\ Cardinality(NwbPositions) >= 2
    /\ Cardinality(pool.calls) >= 2
    /\ \A w \in Workers : \E c \in pool.calls : c[1] = w

RECURSIVE TrailingNotNwb(_)
\* the number of consecutive listed assets that are not NWB files, up to position pos
TrailingNotNwb(pos) ==
    IF pos = 0 THEN 0
    ELSE IF endswith_nwb(pool_listing[pos].path) THEN 0
    ELSE pool_listing[pos].repeat + TrailingNotNwb(pos - 1)

\* C25: handle_dandiset of dandi_lindi abandons a dandiset exactly when 20 consecutive
\* listed assets are not .nwb files: every .nwb asset resets the counter, so a worker
\* that has not met 20 such assets in a row is never stopped for this reason, and after
\* the cutoff the worker handles no further asset of the dandiset.
C25_NonNwbCutoff ==
    /\ [](\A w \in Workers :
            LET me == pool.workers[w]
            IN  /\ me.exit = "cutoff" <=> TrailingNotNwb(me.pos) >= MaxConsecutiveNotNwb
                /\ \A m \in 1..(me.pos - 1) : TrailingNotNwb(m) < MaxConsecutiveNotNwb
                /\ me.exit # "cutoff" => me.num_consecutive_not_nwb = TrailingNotNwb(me.pos)
                /\ me.exit = "cutoff" =>
                      /\ me.pc = "returned"
                      /\ \A c \in pool.calls : c[1] = w => c[2][2] < me.pos)
    /\ [][\A w \in Workers :
            pool.workers[w].exit = "cutoff" =>
                /\ pool'.workers[w] = pool.workers[w]
                /\ {c \in pool'.calls : c[1] = w} = {c \in pool.calls : c[1] = w}]_vars

\* a worker handled an NWB asset and then left the dandiset at 20 assets in a row that
\* are not NWB files
C25_Witness ==
    \E w \in Workers :
        /\ pool.workers[w].exit = "cutoff"
        /\ pool.workers[w].pos = 2
        /\ \E c \in pool.calls : c[1] = w

----------------------------------------------------------------------------
(* _remote_file_exists of dandi_lindi.py, called in a row by a caller that counts *)

\* the number of HEAD requests the caller of the model makes
MaxRequests == 2

\* what urllib.request.urlopen does with a HEAD request: it returns a response (status
\* 2xx), raises HTTPError with the status code, or raises URLError (no answer at all)
Responses ==
    {[kind |-> "response", code |-> c] : c \in {200, 204}}
        \cup {[kind |-> "HTTPError", code |-> c] : c \in {403, 404, 500}}
        \cup {[kind |-> "URLError", code |-> 0]}

\* a caller that lets every result through
remote_file_exists_lenient(r) ==
    IF r.kind = "response" THEN [returns |-> r.code = 200, raises |-> "none"]
    ELSE [returns |-> FALSE, raises |-> "none"]

\* _remote_file_exists on the outcome r of urlopen
remote_file_exists_of(r) ==
    IF r.kind = "response" THEN [returns |-> r.code = 200, raises |-> "none"]
    ELSE IF r.kind = "HTTPError"
         THEN IF r.code = 404 THEN [returns |-> FALSE, raises |-> "none"]
              ELSE [returns |-> FALSE, raises |-> "HTTPError"]
         ELSE [returns |-> FALSE, raises |-> r.kind]

HeadInit ==
    /\ store = <<>>
    /\ archive = LindiArchive
    /\ LindiIdle
    /\ scripts = NotRunning
    /\ ndt = NotRunning
    /\ script = NotRunning
    /\ crawl = NotRunning
    /\ gindex = NotRunning
    /\ kerchunk = NotRunning
    /\ meta = NotRunning
    /\ collect = NotRunning
    /\ usage = NotRunning
    /\ upload = NotRunning
    /\ pool = NotRunning
    /\ \E answers \in UNION {[1..n -> Responses] : n \in 0..MaxRequests} :
          head = [pc |-> "request", answers |-> answers, results |-> <<>>,
                  num_found |-> 0, num_not_found |-> 0, error |-> "none"]

\* the variables the caller does not touch
notHead == <<store, archive, lindiVars, kerchunk, meta, collect, usage, upload, pool, gindex, crawl, script, ndt, scripts>>

\* the next call of _remote_file_exists: it returns and the caller counts, or it raises
\* and the exception leaves the caller
H_RemoteFileExists ==
    /\ head.pc = "request"
    /\ Len(head.results) < Len(head.answers)
    /\ LET r == remote_file_exists_of(head.answers[Len(head.results) + 1])
       IN  head' = IF r.raises # "none"
                   THEN [head EXCEPT !.pc = "raised", !.error = r.raises]
                   ELSE [head EXCEPT !.results = Append(@, r.returns),
                                     !.num_found = IF r.returns THEN @ + 1 ELSE @,
                                     !.num_not_found = IF r.returns THEN @ ELSE @ + 1]
    /\ UNCHANGED notHead

\* the caller has no more requests to make
H_Done ==
    /\ head.pc = "request"
    /\ Len(head.results) = Len(head.answers)
    /\ head' = [head EXCEPT !.pc = "done"]
    /\ UNCHANGED notHead

HeadNext ==
    \/ H_RemoteFileExists
    \/ H_Done

SpecHead == HeadInit /\ [][HeadNext]_vars

\* the server answered with an error other than 404 (or not at all)
OtherError(r) == r.kind = "URLError" \/ (r.kind = "HTTPError" /\ r.code # 404)

\* C16: _remote_file_exists returns True exactly when the HEAD response has status 200
\* and False when the server answers 404; every other error is propagated to the
\* caller, so it is never counted as found or as missing, and the caller stops at it.
C16_ExistenceCheck ==
    /\ \A n \in DOMAIN head.results :
          /\ head.results[n] <=> (head.answers[n].kind = "response" /\ head.answers[n].code = 200)
          /\ (head.answers[n].kind = "HTTPError" /\ head.answers[n].code = 404)
                => ~head.results[n]
          /\ ~OtherError(head.answers[n])
    /\ head.num_found + head.num_not_found = Len(head.results)
    /\ head.num_not_found = Cardinality({n \in DOMAIN head.results : ~head.results[n]})
    /\ head.pc = "raised" <=>
          (Len(head.results) < Len(head.answers) /\ head.error # "none")
    /\ head.pc = "raised" =>
          /\ OtherError(head.answers[Len(head.results) + 1])
          /\ head.error = head.answers[Len(head.results) + 1].kind
    /\ head.pc = "done" => \A n \in DOMAIN head.answers : ~OtherError(head.answers[n])

\* a 404 was reported as missing and the next request, answered 500, was raised
C16_Witness ==
    /\ head.pc = "raised"
    /\ head.results = <<FALSE>>
    /\ head.answers[1] = [kind |-> "HTTPError", code |-> 404]
    /\ head.answers[2] = [kind |-> "HTTPError", code |-> 500]

----------------------------------------------------------------------------
(* create_global_index.py: create_global_index and handle_dandiset *)

\* the generator version create_global_index takes a manifest from
GlobalAcceptedVersion == 9

\* dandi/global_index.json
global_index_key == <<"dandi", "global_index", "json">>

\* _get_neurodata_types_for_zarr_json: the sorted neurodata types of the .zattrs refs (the
\* manifests of the model have the root group only)
get_neurodata_types_for_zarr_json(zarr_json) ==
    IF <<".zattrs">> \in DOMAIN zarr_json.refs THEN <<"NWBFile">> ELSE <<>>

\* the file record handle_dandiset appends
GlobalFile(dandiset_id, asset_obj, zarr_json) ==
    [dandiset_id |-> dandiset_id, asset_id |-> asset_obj.identifier,
     asset_path |-> asset_obj.path,
     neurodata_types |-> get_neurodata_types_for_zarr_json(zarr_json)]

\* the bucket before a run: each .nwb asset has no zarr.json, one of version 9, or one
\* with the stamp of the present generator
GlobalStores(arch) ==
    LET nwb == NwbAssetsOf(arch)
    IN  {[k \in {old_zarr_json_file_key(a) : a \in {x \in nwb : m[x] # "absent"}} |->
            LET a == CHOOSE x \in nwb : k = old_zarr_json_file_key(x)
            IN  IF m[a] = "version9" THEN LegacyZarrJson(a)
                ELSE LindiJson(GenerationMetadata(a))] :
         m \in [nwb -> {"absent", "version9", "version11"}]}

GlobalInit ==
    /\ archive \in Archives({dandiset_ids[n] : n \in DOMAIN dandiset_ids})
    /\ store \in GlobalStores(archive)
    /\ LindiIdle
    /\ scripts = NotRunning
    /\ ndt = NotRunning
    /\ script = NotRunning
    /\ crawl = NotRunning
    /\ head = NotRunning
    /\ pool = NotRunning
    /\ upload = NotRunning
    /\ kerchunk = NotRunning
    /\ meta = NotRunning
    /\ collect = NotRunning
    /\ usage = NotRunning
    /\ gindex = [pc |-> "for_dandiset", dandiset_index |-> 1, i |-> 0, files |-> <<>>,
                 all_files |-> <<>>, num_consecutive_not_nwb |-> 0,
                 num_consecutive_not_found |-> 0, download_calls |-> 0,
                 num_retries |-> NumRetries, error |-> "none"]

\* the variables create_global_index does not touch
notGlobal == <<lindiVars, kerchunk, meta, collect, usage, upload, pool, head, crawl, script, ndt, scripts>>

g_dandiset_id == dandiset_ids[gindex.dandiset_index]

\* for dandiset in dandisets: enter handle_dandiset (a dandiset that is not found gives
\* None, which `if files` passes over); after the loop, the upload
G_ForDandiset ==
    /\ gindex.pc = "for_dandiset"
    /\ gindex' =
         IF gindex.dandiset_index > Len(dandiset_ids)
         THEN [gindex EXCEPT !.pc = "upload", !.num_retries = NumRetries]
         ELSE IF ~archive[g_dandiset_id].found
              THEN [gindex EXCEPT !.dandiset_index = @ + 1]
              ELSE [gindex EXCEPT !.pc = "for_asset", !.i = 0, !.files = <<>>,
                                  !.num_consecutive_not_nwb = 0,
                                  !.num_consecutive_not_found = 0]
    /\ UNCHANGED <<store, archive, notGlobal>>

\* one turn of the loop of handle_dandiset, or `return files` and all_files.extend(files)
G_ForAsset ==
    /\ gindex.pc = "for_asset"
    /\ LET return == [gindex EXCEPT !.pc = "for_dandiset", !.dandiset_index = @ + 1,
                                    !.all_files = @ \o gindex.files]
       IN  gindex' =
             IF gindex.i = Len(archive[g_dandiset_id].assets) THEN return
             ELSE
               LET asset_obj == archive[g_dandiset_id].assets[gindex.i + 1]
                   key == old_zarr_json_file_key(AssetDict(asset_obj.identifier, g_dandiset_id))
                   next == [gindex EXCEPT !.i = @ + 1, !.num_consecutive_not_nwb = 0]
                   miss == [next EXCEPT !.num_consecutive_not_found = @ + 1]
               IN  IF ~endswith_nwb(asset_obj.path)
                   THEN IF gindex.num_consecutive_not_nwb + 1 >= MaxConsecutiveNotNwb
                        THEN [return EXCEPT !.num_consecutive_not_nwb = @ + 1]
                        ELSE [gindex EXCEPT !.i = @ + 1, !.num_consecutive_not_nwb = @ + 1]
                   ELSE IF gindex.num_consecutive_not_found >= MaxConsecutiveNotFound
                        THEN [return EXCEPT !.num_consecutive_not_nwb = 0]
                   \* zarr_json = _download_json(zarr_json_url): a missing object is
                   \* answered 404 on each of the tries and the last error is raised
                   ELSE IF key \notin DOMAIN store
                        THEN [gindex EXCEPT !.pc = "aborted", !.error = "download_error",
                                            !.num_consecutive_not_nwb = 0,
                                            !.download_calls = NumRetries]
                   ELSE IF ~remote_file_exists(key) THEN miss
                   ELSE IF generation_version(store[key]) # GlobalAcceptedVersion THEN miss
                   ELSE [next EXCEPT !.files = Append(@, GlobalFile(g_dandiset_id, asset_obj,
                                                                    store[key]))]
    /\ UNCHANGED <<store, archive, notGlobal>>

\* a request for an object that is there raises: the download failed on each of its tries
\* or the HEAD was answered with an error other than 404
G_RequestError ==
    /\ gindex.pc = "for_asset"
    /\ gindex.i < Len(archive[g_dandiset_id].assets)
    /\ endswith_nwb(archive[g_dandiset_id].assets[gindex.i + 1].path)
    /\ old_zarr_json_file_key(AssetDict(archive[g_dandiset_id].assets[gindex.i + 1].identifier,
                                        g_dandiset_id)) \in DOMAIN store
    /\ gindex' = [gindex EXCEPT !.pc = "aborted", !.error = "http_error"]
    /\ UNCHANGED <<store, archive, notGlobal>>

\* _upload_file_to_s3 of global_index.json: s3.upload_file succeeds
G_UploadOK ==
    /\ gindex.pc = "upload"
    /\ store' = PutObject(store, global_index_key,
                          [files |-> gindex.all_files, neurodata_types |-> <<>>])
    /\ gindex' = [gindex EXCEPT !.pc = "done"]
    /\ UNCHANGED <<archive, notGlobal>>

\* _upload_file_to_s3 of global_index.json: s3.upload_file raises
G_UploadFail ==
    /\ gindex.pc = "upload"
    /\ gindex' = IF UploadGivesUp(gindex.num_retries)
                 THEN [gindex EXCEPT !.pc = "aborted", !.error = "upload_error",
                                     !.num_retries = @ - 1]
                 ELSE [gindex EXCEPT !.num_retries = @ - 1]
    /\ UNCHANGED <<store, archive, notGlobal>>

GlobalNext ==
    \/ G_ForDandiset
    \/ G_ForAsset
    \/ G_RequestError
    \/ G_UploadOK
    \/ G_UploadFail

SpecGlobal == GlobalInit /\ [][GlobalNext]_vars

\* the asset the loop of handle_dandiset is at
g_asset == AssetDict(archive[g_dandiset_id].assets[gindex.i + 1].identifier, g_dandiset_id)

\* C21: in handle_dandiset of create_global_index an NWB asset whose zarr.json does not
\* exist remotely is counted as not found and skipped: no exception is raised for it and
\* the build of global_index.json is not aborted.
C21_MissingManifestSkipped ==
    (/\ gindex.pc = "aborted"
     /\ gindex.dandiset_index <= Len(dandiset_ids)
     /\ gindex.i < Len(archive[g_dandiset_id].assets))
        => old_zarr_json_file_key(g_asset) \in DOMAIN store

----------------------------------------------------------------------------
(* dandi_lindi.py: dandi_lindi, the loop over the catalog *)

\* the longest catalog fetch_all_dandisets returns in the model
MaxDandisets == 2

\* the dandiset ids of the archive in the model
CatalogIds == {"000003", "000004", "000019"}

\* the hard-coded list dandi_lindi tests dandiset.dandiset_id against (those of CatalogIds)
selected_dandisets == {"000003", "000019"}

\* fetch_all_dandisets(): the dandisets of the first page, in the order of the archive
Catalogs ==
    {c \in UNION {[1..n -> CatalogIds] : n \in 0..MaxDandisets} :
        \A i, j \in DOMAIN c : i # j => c[i] # c[j]}

\* range(num_parallel)
PoolWorkers == 0..(MaxParallel - 1)

\* the listings of the dandisets of the archive
CrawlArchive ==
    [d \in CatalogIds |->
        [found |-> TRUE,
         assets |-> IF d = "000003" THEN <<[identifier |-> <<d, 1>>, path |-> "f.nwb"]>>
                    ELSE IF d = "000004"
                         THEN <<[identifier |-> <<d, 1>>, path |-> "f.txt"],
                                [identifier |-> <<d, 2>>, path |-> "f.nwb"]>>
                    ELSE <<[identifier |-> <<d, 1>>, path |-> "f.nwb"],
                           [identifier |-> <<d, 2>>, path |-> "f.nwb"]>>]]

CrawlInit ==
    /\ store = <<>>
    /\ archive = CrawlArchive
    /\ LindiIdle
    /\ scripts = NotRunning
    /\ ndt = NotRunning
    /\ script = NotRunning
    /\ gindex = NotRunning
    /\ head = NotRunning
    /\ pool = NotRunning
    /\ upload = NotRunning
    /\ kerchunk = NotRunning
    /\ meta = NotRunning
    /\ collect = NotRunning
    /\ usage = NotRunning
    /\ \E c \in Catalogs :
          crawl = [pc |-> "for_dandiset", dandisets |-> c, dandiset_index |-> 1,
                   dispatched |-> <<>>, workers |-> [w \in PoolWorkers |-> "idle"],
                   got |-> 0, late |-> FALSE, error |-> "none"]

\* the variables the loop over the catalog does not touch
notCrawl == <<archive, lindiVars, kerchunk, meta, collect, usage, upload, pool, head,
              gindex, script, ndt, scripts>>

\* the assets of the dandiset of the pool that handle_dandiset passes to process_asset
\* when it is called with modulus_offset w
crawl_assets(w) ==
    LET d == crawl.dandisets[crawl.dandiset_index]
        l == archive[d].assets
        asset_index(n) == Cardinality({m \in 1..(n - 1) : endswith_nwb(l[m].path)})
    IN  {AssetDict(l[n].identifier, d) :
            n \in {m \in DOMAIN l : /\ endswith_nwb(l[m].path)
                                    /\ Mine(asset_index(m), MaxParallel, w)}}

\* for dandiset in dandisets: a dandiset that is not in the list is passed over; for the
\* others the pool is started and handle_dandiset is applied num_parallel times
CR_ForDandiset ==
    /\ crawl.pc = "for_dandiset"
    /\ crawl' =
         IF crawl.dandiset_index > Len(crawl.dandisets)
         THEN [crawl EXCEPT !.pc = "done"]
         ELSE IF crawl.dandisets[crawl.dandiset_index] \notin selected_dandisets
              THEN [crawl EXCEPT !.dandiset_index = @ + 1]
              ELSE [crawl EXCEPT !.pc = "pool", !.got = 0,
                                 !.workers = [w \in PoolWorkers |-> "running"],
                                 !.dispatched = Append(@, crawl.dandisets[crawl.dandiset_index])]
    /\ UNCHANGED <<store, notCrawl>>

\* process_asset, called by worker w for one of its assets, uploads nwb.lindi.json, or
\* info.json after it; the assets are taken in the order of the listing
CR_WorkerUploads(w) ==
    /\ crawl.pc = "pool"
    /\ crawl.workers[w] = "running"
    /\ \E a \in crawl_assets(w) :
          /\ \A b \in crawl_assets(w) :
                b.identifier[2] > a.identifier[2] => file_key(b) \notin DOMAIN store
          /\ IF file_key(a) \notin DOMAIN store
             THEN store' = PutObject(store, file_key(a), LindiJson(GenerationMetadata(a)))
             ELSE /\ info_file_key(a) \notin DOMAIN store
                  /\ store' = PutObject(store, info_file_key(a),
                                        InfoJson(LindiJson(GenerationMetadata(a))))
    /\ UNCHANGED <<crawl, notCrawl>>

\* handle_dandiset of worker w returns (no asset of its is left with a manifest and no
\* info.json), or raises (it re-raises what process_asset raised)
CR_WorkerEnds(w) ==
    /\ crawl.pc = "pool"
    /\ crawl.workers[w] = "running"
    /\ \E how \in {"returned", "raised"} :
          /\ how = "returned" =>
                \A a \in crawl_assets(w) :
                    file_key(a) \in DOMAIN store => info_file_key(a) \in DOMAIN store
          /\ crawl' = [crawl EXCEPT !.workers[w] = how]
    /\ UNCHANGED <<store, notCrawl>>

\* async_result.get() of the next result: it waits for the worker and re-raises its
\* exception, which leaves the with block (the pool is terminated) and dandi_lindi;
\* after the last result the pool is closed
CR_Get ==
    /\ crawl.pc = "pool"
    /\ crawl.workers[crawl.got] # "running"
    /\ crawl' =
         IF crawl.workers[crawl.got] = "raised"
         THEN [crawl EXCEPT !.pc = "aborted", !.error = "worker_exception",
                            !.workers = [w \in PoolWorkers |->
                                            IF crawl.workers[w] = "running" THEN "terminated"
                                            ELSE crawl.workers[w]]]
         ELSE IF crawl.got + 1 = MaxParallel
              THEN [crawl EXCEPT !.pc = "time_check", !.got = @ + 1]
              ELSE [crawl EXCEPT !.got = @ + 1]
    /\ UNCHANGED <<store, notCrawl>>

\* elapsed_sec = time.time() - timer; if elapsed_sec > max_time_sec: break
CR_TimeCheck ==
    /\ crawl.pc = "time_check"
    /\ crawl' = IF crawl.late THEN [crawl EXCEPT !.pc = "done"]
                ELSE [crawl EXCEPT !.pc = "for_dandiset", !.dandiset_index = @ + 1]
    /\ UNCHANGED <<store, notCrawl>>

\* time passes: max_time_sec is now exceeded
CR_TimePasses ==
    /\ crawl.pc \in {"for_dandiset", "pool"}
    /\ ~crawl.late
    /\ crawl' = [crawl EXCEPT !.late = TRUE]
    /\ UNCHANGED <<store, notCrawl>>

CrawlNext ==
    \/ CR_ForDandiset
    \/ \E w \in PoolWorkers : CR_WorkerUploads(w)
    \/ \E w \in PoolWorkers : CR_WorkerEnds(w)
    \/ CR_Get
    \/ CR_TimeCheck
    \/ CR_TimePasses

SpecCrawl == CrawlInit /\ [][CrawlNext]_vars

\* C24: dandi_lindi dispatches the worker pool for every dandiset returned by
\* fetch_all_dandisets, in catalog order, and stops only after the first dandiset at
\* whose completion the elapsed time exceeds max_time_sec; no worker of a pool is still
\* running when the next dandiset starts.
C24_CrawlCoverage ==
    /\ \A n \in DOMAIN crawl.dispatched : crawl.dispatched[n] = crawl.dandisets[n]
    /\ crawl.pc = "done" => (crawl.late \/ crawl.dispatched = crawl.dandisets)
    /\ crawl.pc \in {"for_dandiset", "time_check", "done"} =>
          \A w \in PoolWorkers : crawl.workers[w] # "running"

----------------------------------------------------------------------------
(* create_nwb_usage_scripts.py: process_asset; texts are sequences of characters *)

\* the number of process_asset calls made for the asset, one run after the other
MaxCalls == 2

\* version = 'v5'
usage_version == <<"v", "5">>

\* the other version strings a script in the bucket may carry
OtherVersions == {<<"v", "4">>, <<"v", "5", "0">>, <<"v">>}

\* f'# get_nwb_usage_string {version}.', the prefix the skip check looks for
usage_marker(v) == <<"#", " ", "get_nwb_usage_string", " ">> \o v \o <<".">>

\* what get_nwb_usage_string returns, a text of several lines
usage_body == <<"import", "\n", "nwb">>

\* a first line written without the dot that the skip check looks for
usage_script_text_undotted(v) ==
    <<"#", " ", "get_nwb_usage_string", " ">> \o v \o <<"\n">> \o usage_body

\* f'# get_nwb_usage_string {version}.' + '\n' + usage_script
usage_script_text(v) ==
    <<"#", " ", "get_nwb_usage_string", " ">> \o v \o <<".">> \o <<"\n">> \o usage_body

RECURSIVE first_line(_)
\* txt.split('\n')[0]
first_line(txt) ==
    IF txt = <<>> THEN <<>>
    ELSE IF Head(txt) = "\n" THEN <<>>
    ELSE <<Head(txt)>> \o first_line(Tail(txt))

\* str.startswith
startswith(s, prefix) == Len(s) >= Len(prefix) /\ SubSeq(s, 1, Len(prefix)) = prefix

\* dandi/dandisets/{dandiset_id}/assets/{asset_id}/usage.py
file_key_usage(a) == <<a.dandiset_id, a.identifier, "usage.py">>

\* the one asset of the model
script_asset == AssetDict(<<"000003", 1>>, "000003")

\* the usage.py texts that may be in the bucket before the first call
ExistingTexts ==
    {usage_script_text(v) : v \in OtherVersions \cup {usage_version}}
        \cup {<<>>, usage_body, <<"\n">> \o usage_script_text(usage_version),
              usage_marker(usage_version)}

\* the bucket before the first call: the manifest and the script are there or not
ScriptStores ==
    {[k \in ks |-> IF k = file_key(script_asset) THEN LindiJson(GenerationMetadata(script_asset))
                   ELSE txt] :
        ks \in SUBSET {file_key(script_asset), file_key_usage(script_asset)},
        txt \in ExistingTexts}

\* the locals of a call of process_asset
ScriptCall(n) ==
    [pc |-> "download_usage", calls |-> n, txt_downloaded |-> FALSE,
     manifest_downloaded |-> FALSE, uploaded |-> FALSE, num_retries |-> NumRetries,
     outcome |-> "none"]

ScriptInit ==
    /\ store \in ScriptStores
    /\ archive = LindiArchive
    /\ LindiIdle
    /\ scripts = NotRunning
    /\ ndt = NotRunning
    /\ crawl = NotRunning
    /\ gindex = NotRunning
    /\ head = NotRunning
    /\ pool = NotRunning
    /\ upload = NotRunning
    /\ kerchunk = NotRunning
    /\ meta = NotRunning
    /\ collect = NotRunning
    /\ usage = NotRunning
    /\ script = ScriptCall(1)

\* the variables process_asset does not touch, besides store
notScript == <<archive, lindiVars, kerchunk, meta, collect, usage, upload, pool, head, gindex,
               crawl, ndt, scripts>>

\* txt = _download_text(usage_url, retry=False), None if it raises; then the skip check
S_DownloadUsage ==
    /\ script.pc = "download_usage"
    /\ \E ok \in BOOLEAN :
          LET got == ok /\ file_key_usage(script_asset) \in DOMAIN store
              txt == store[file_key_usage(script_asset)]
          IN  script' =
                IF got /\ startswith(first_line(txt), usage_marker(usage_version))
                THEN [script EXCEPT !.pc = "returned", !.outcome = "skipped",
                                    !.txt_downloaded = TRUE]
                ELSE [script EXCEPT !.pc = "download_manifest", !.txt_downloaded = got]
    /\ UNCHANGED <<store, notScript>>

\* lindi_json = _download_json(lindi_json_url): it returns the manifest or raises after
\* its tries (a manifest that is not there is answered 404 each time)
S_DownloadManifest ==
    /\ script.pc = "download_manifest"
    /\ \E ok \in BOOLEAN :
          script' = IF ok /\ file_key(script_asset) \in DOMAIN store
                    THEN [script EXCEPT !.pc = "generate", !.manifest_downloaded = TRUE]
                    ELSE [script EXCEPT !.pc = "raised", !.outcome = "download_error"]
    /\ UNCHANGED <<store, notScript>>

\* the file is opened, get_nwb_usage_string returns and usage.py is written locally
S_Generate ==
    /\ script.pc = "generate"
    /\ script' = [script EXCEPT !.pc = "upload", !.num_retries = NumRetries]
    /\ UNCHANGED <<store, notScript>>

\* opening the file or get_nwb_usage_string raises
S_GenerateFail ==
    /\ script.pc = "generate"
    /\ script' = [script EXCEPT !.pc = "raised", !.outcome = "generation_error"]
    /\ UNCHANGED <<store, notScript>>

\* _upload_file of usage.py: s3.upload_file succeeds, process_asset returns
S_UploadOK ==
    /\ script.pc = "upload"
    /\ store' = PutObject(store, file_key_usage(script_asset), usage_script_text(usage_version))
    /\ script' = [script EXCEPT !.pc = "returned", !.outcome = "uploaded", !.uploaded = TRUE]
    /\ UNCHANGED notScript

\* _upload_file of usage.py: s3.upload_file raises
S_UploadFail ==
    /\ script.pc = "upload"
    /\ script' = IF UploadGivesUp(script.num_retries)
                 THEN [script EXCEPT !.pc = "raised", !.outcome = "upload_error",
                                     !.num_retries = @ - 1]
                 ELSE [script EXCEPT !.num_retries = @ - 1]
    /\ UNCHANGED <<store, notScript>>

\* a later run calls process_asset for the asset again
S_CallAgain ==
    /\ script.pc \in {"returned", "raised"}
    /\ script.calls < MaxCalls
    /\ script' = [ScriptCall(script.calls + 1) EXCEPT !.outcome = "none"]
    /\ UNCHANGED <<store, notScript>>

ScriptNext ==
    \/ S_DownloadUsage
    \/ S_DownloadManifest
    \/ S_Generate
    \/ S_GenerateFail
    \/ S_UploadOK
    \/ S_UploadFail
    \/ S_CallAgain

SpecScript == ScriptInit /\ [][ScriptNext]_vars

\* the script in the bucket is one that process_asset accepts
MarkerCurrent ==
    /\ file_key_usage(script_asset) \in DOMAIN store
    /\ startswith(first_line(store[file_key_usage(script_asset)]), usage_marker(usage_version))

\* C26: the usage.py process_asset uploads begins with the line
\* '# get_nwb_usage_string v5.', the marker its own skip check tests: a later call that
\* downloads it returns without downloading the manifest or uploading anything, while a
\* script with another marker, or one that cannot be downloaded, is not skipped but
\* regenerated and overwritten.
C26_VersionRoundTrip ==
    /\ [](script.uploaded =>
            /\ first_line(store[file_key_usage(script_asset)]) = usage_marker(usage_version)
            /\ MarkerCurrent)
    /\ [](script.outcome = "skipped" =>
            /\ script.txt_downloaded /\ MarkerCurrent
            /\ ~script.manifest_downloaded /\ ~script.uploaded)
    /\ []((script.pc # "download_usage" /\ script.txt_downloaded /\ MarkerCurrent
              /\ ~script.uploaded) => script.outcome = "skipped")
    /\ []((script.pc # "download_usage" /\ ~(script.txt_downloaded /\ MarkerCurrent)
              /\ ~script.uploaded) =>
            script.pc \in {"download_manifest", "generate", "upload", "raised"})
    /\ [][script'.outcome = "skipped" => store' = store]_vars
    /\ [][(script.pc = "upload" /\ script'.pc = "returned") =>
            /\ store'[file_key_usage(script_asset)] = usage_script_text(usage_version)
            /\ script'.outcome = "uploaded"]_vars

\* a script with an older marker was overwritten by the first call, and the second call
\* has found the new one and returned
C26_Witness ==
    /\ script.calls = 2
    /\ script.outcome = "skipped"
    /\ store[file_key_usage(script_asset)] = usage_script_text(usage_version)

----------------------------------------------------------------------------
(* create_neurodata_types_index.py: create_neurodata_types_index and its pool of threads *)

\* the generator version create_neurodata_types_index takes a manifest from
NdtAcceptedVersion == 9

\* dandi/neurodata_types_index.json.gz
ndt_index_key == <<"dandi", "neurodata_types_index", "json", "gz">>

\* the file record handle_dandiset appends (the catalog of the model gives every dandiset
\* the version "draft")
NdtFile(dandiset_id, asset_obj, neurodata_types) ==
    [dandiset_id |-> dandiset_id, dandiset_version |-> "draft",
     asset_id |-> asset_obj.identifier, asset_path |-> asset_obj.path,
     zarr_json_url |-> file_key(AssetDict(asset_obj.identifier, dandiset_id)),
     neurodata_types |-> neurodata_types]

\* the state of an .nwb asset before a run: no manifest, a manifest of version 9, a
\* manifest of the present generator, or a manifest and a record in the index of an
\* earlier run
NdtKinds == {"absent", "version9", "indexed"}

\* the assets of the dandisets of the catalog from the n-th on, as asset dicts
RECURSIVE AssetsFrom(_, _)
AssetsFrom(arch, n) ==
    IF n > Len(dandiset_ids) THEN <<>>
    ELSE [m \in DOMAIN arch[dandiset_ids[n]].assets |->
             AssetDict(arch[dandiset_ids[n]].assets[m].identifier, dandiset_ids[n])]
         \o AssetsFrom(arch, n + 1)

\* the bucket before a run
NdtStores(arch) ==
    LET nwb == NwbAssetsOf(arch)
        manifests(m) ==
            [k \in {file_key(a) : a \in {x \in nwb : m[x] # "absent"}} |->
                LET a == CHOOSE x \in nwb : k = file_key(x)
                IN  IF m[a] = "version9" THEN LegacyZarrJson(a)
                    ELSE LindiJson(GenerationMetadata(a))]
        listed(m) == {a \in nwb : m[a] = "indexed"}
        index(m) ==
            [files |-> LET all == SelectSeq(AssetsFrom(arch, 1), LAMBDA a : a \in listed(m))
                       IN  [n \in DOMAIN all |->
                              NdtFile(all[n].dandiset_id,
                                      [identifier |-> all[n].identifier, path |-> "f.nwb"],
                                      <<"NWBFile", "Units">>)]]
    IN  {IF listed(m) = {} THEN manifests(m)
         ELSE PutObject(manifests(m), ndt_index_key, index(m)) : m \in [nwb -> NdtKinds]}

\* the futures of the pool, one for each dandiset of the catalog
Futures == DOMAIN dandiset_ids

NdtInit ==
    /\ archive \in Archives({dandiset_ids[n] : n \in DOMAIN dandiset_ids})
    /\ store \in NdtStores(archive)
    /\ LindiIdle
    /\ scripts = NotRunning
    /\ script = NotRunning
    /\ crawl = NotRunning
    /\ gindex = NotRunning
    /\ head = NotRunning
    /\ pool = NotRunning
    /\ upload = NotRunning
    /\ kerchunk = NotRunning
    /\ meta = NotRunning
    /\ collect = NotRunning
    /\ usage = NotRunning
    /\ ndt = [pc |-> "load_existing", existing_neurodata_types_by_asset_id |-> <<>>,
              futures |-> [f \in Futures |-> [state |-> "pending", files |-> <<>>]],
              yielded |-> <<>>, all_files |-> <<>>, num_retries |-> NumRetries,
              error |-> "none"]

\* the variables create_neurodata_types_index does not touch
notNdt == <<lindiVars, kerchunk, meta, collect, usage, upload, pool, head, gindex, crawl,
            script, scripts>>

\* the loop of handle_dandiset from position i on: the files it returns
RECURSIVE ndt_scan(_, _, _, _, _, _)
ndt_scan(dandiset_id, existing, i, files, num_consecutive_not_nwb, num_consecutive_not_found) ==
    IF i = Len(archive[dandiset_id].assets) THEN files
    ELSE
      LET asset_obj == archive[dandiset_id].assets[i + 1]
          key == file_key(AssetDict(asset_obj.identifier, dandiset_id))
          miss == ndt_scan(dandiset_id, existing, i + 1, files, 0, num_consecutive_not_found + 1)
          take(neurodata_types) ==
              ndt_scan(dandiset_id, existing, i + 1,
                       Append(files, NdtFile(dandiset_id, asset_obj, neurodata_types)),
                       0, num_consecutive_not_found)
      IN  IF ~endswith_nwb(asset_obj.path)
          THEN IF num_consecutive_not_nwb + 1 >= MaxConsecutiveNotNwb THEN files
               ELSE ndt_scan(dandiset_id, existing, i + 1, files,
                             num_consecutive_not_nwb + 1, num_consecutive_not_found)
          ELSE IF num_consecutive_not_found >= MaxConsecutiveNotFound THEN files
          \* num_assets_processed is the number of files appended
          ELSE IF Len(files) >= MaxAssetsProcessed THEN files
          ELSE IF ~remote_file_exists(key) THEN miss
          ELSE IF asset_obj.identifier \in DOMAIN existing
               THEN take(existing[asset_obj.identifier])
          ELSE IF generation_version(store[key]) # NdtAcceptedVersion THEN miss
          ELSE take(get_neurodata_types_for_zarr_json(store[key]))

\* the existing index is downloaded and the map by asset id is made of it; when the
\* download raises, the map is empty. Then every handle_dandiset is submitted to the pool.
N_LoadExisting ==
    /\ ndt.pc = "load_existing"
    /\ \E downloaded \in BOOLEAN :
          /\ downloaded => ndt_index_key \in DOMAIN store
          /\ ndt' = [ndt EXCEPT
                !.pc = "as_completed",
                !.existing_neurodata_types_by_asset_id =
                    IF downloaded
                    THEN LET files == store[ndt_index_key].files
                         IN  [id \in {files[n].asset_id : n \in DOMAIN files} |->
                                 (CHOOSE rec \in {files[n] : n \in DOMAIN files} :
                                     rec.asset_id = id).neurodata_types]
                    ELSE <<>>]
    /\ UNCHANGED <<store, archive, notNdt>>

\* a thread of the pool takes the next future of the queue: max_workers threads at most
N_ThreadStart(f) ==
    /\ ndt.pc \in {"as_completed", "unwinding"}
    /\ f \in Futures
    /\ ndt.futures[f].state = "pending"
    /\ \A g \in Futures : g < f => ndt.futures[g].state # "pending"
    /\ Cardinality({g \in Futures : ndt.futures[g].state = "running"}) < MaxParallel
    /\ ndt' = [ndt EXCEPT !.futures[f].state = "running"]
    /\ UNCHANGED <<store, archive, notNdt>>

\* handle_dandiset returns in its thread: None for a dandiset that is not found, else files
N_ThreadReturns(f) ==
    /\ ndt.pc \in {"as_completed", "unwinding"}
    /\ f \in Futures
    /\ ndt.futures[f].state = "running"
    /\ ndt' = IF ~archive[dandiset_ids[f]].found
              THEN [ndt EXCEPT !.futures[f].state = "returned_none"]
              ELSE [ndt EXCEPT !.futures[f].state = "returned",
                               !.futures[f].files =
                                   ndt_scan(dandiset_ids[f],
                                            ndt.existing_neurodata_types_by_asset_id,
                                            0, <<>>, 0, 0)]
    /\ UNCHANGED <<store, archive, notNdt>>

\* handle_dandiset raises in its thread: a HEAD answered with an error other than 404 or a
\* download that failed on each of its tries
N_ThreadRaises(f) ==
    /\ ndt.pc \in {"as_completed", "unwinding"}
    /\ f \in Futures
    /\ ndt.futures[f].state = "running"
    /\ archive[dandiset_ids[f]].found
    /\ \E n \in DOMAIN archive[dandiset_ids[f]].assets :
          endswith_nwb(archive[dandiset_ids[f]].assets[n].path)
    /\ ndt' = [ndt EXCEPT !.futures[f].state = "raised"]
    /\ UNCHANGED <<store, archive, notNdt>>

\* all_files = files, in place of all_files.extend(files)
N_Yield_assigning(f) ==
    /\ ndt.pc = "as_completed"
    /\ f \in Futures
    /\ ndt.futures[f].state \in {"returned", "returned_none", "raised"}
    /\ \A n \in DOMAIN ndt.yielded : ndt.yielded[n] # f
    /\ ndt' =
         IF ndt.futures[f].state = "raised"
         THEN [ndt EXCEPT !.pc = "unwinding", !.error = "thread_exception",
                          !.yielded = Append(@, f)]
         ELSE LET extended == [ndt EXCEPT !.yielded = Append(@, f),
                                          !.all_files = IF ndt.futures[f].files # <<>>
                                                        THEN ndt.futures[f].files ELSE @]
              IN  IF Len(extended.yielded) = Len(dandiset_ids)
                  THEN [extended EXCEPT !.pc = "upload"]
                  ELSE extended
    /\ UNCHANGED <<store, archive, notNdt>>

\* for future in as_completed(futures): a finished future is yielded to the main thread;
\* future.result() gives the files, which extend all_files, or raises what the thread
\* raised; after the last future the with block is left
N_Yield(f) ==
    /\ ndt.pc = "as_completed"
    /\ f \in Futures
    /\ ndt.futures[f].state \in {"returned", "returned_none", "raised"}
    /\ \A n \in DOMAIN ndt.yielded : ndt.yielded[n] # f
    /\ ndt' =
         IF ndt.futures[f].state = "raised"
         THEN [ndt EXCEPT !.pc = "unwinding", !.error = "thread_exception",
                          !.yielded = Append(@, f)]
         ELSE LET extended == [ndt EXCEPT !.yielded = Append(@, f),
                                          !.all_files = @ \o ndt.futures[f].files]
              IN  IF Len(extended.yielded) = Len(dandiset_ids)
                  THEN [extended EXCEPT !.pc = "upload"]
                  ELSE extended
    /\ UNCHANGED <<store, archive, notNdt>>

\* the exception leaves the with block: the executor is shut down, which waits for every
\* future, and create_neurodata_types_index ends with the exception
N_Shutdown ==
    /\ ndt.pc = "unwinding"
    /\ \A f \in Futures : ndt.futures[f].state \notin {"pending", "running"}
    /\ ndt' = [ndt EXCEPT !.pc = "aborted"]
    /\ UNCHANGED <<store, archive, notNdt>>

\* _upload_file_to_s3 of neurodata_types_index.json.gz: s3.upload_file succeeds
N_UploadOK ==
    /\ ndt.pc = "upload"
    /\ store' = PutObject(store, ndt_index_key, [files |-> ndt.all_files])
    /\ ndt' = [ndt EXCEPT !.pc = "done"]
    /\ UNCHANGED <<archive, notNdt>>

\* _upload_file_to_s3 of neurodata_types_index.json.gz: s3.upload_file raises
N_UploadFail ==
    /\ ndt.pc = "upload"
    /\ ndt' = IF UploadGivesUp(ndt.num_retries)
              THEN [ndt EXCEPT !.pc = "aborted", !.error = "upload_error",
                               !.num_retries = @ - 1]
              ELSE [ndt EXCEPT !.num_retries = @ - 1]
    /\ UNCHANGED <<store, archive, notNdt>>

NdtNext ==
    \/ N_LoadExisting
    \/ \E f \in Futures : N_ThreadStart(f)
    \/ \E f \in Futures : N_ThreadReturns(f)
    \/ \E f \in Futures : N_ThreadRaises(f)
    \/ \E f \in Futures : N_Yield(f)
    \/ N_Shutdown
    \/ N_UploadOK
    \/ N_UploadFail

SpecNdt == NdtInit /\ [][NdtNext]_vars

\* the records of a sequence of files
Records(files) == {files[n] : n \in DOMAIN files}

\* C29: the threads of the pool read the map of the existing index and change neither it
\* nor the bucket nor all_files; all_files changes only where the main thread takes the
\* result of a future that as_completed yields; and the file records of an uploaded
\* index are the union of what the handle_dandiset calls returned, in whatever order the
\* futures were yielded.
C29_OrderIndependentMerge ==
    /\ [](ndt.pc = "done" =>
             Records(store[ndt_index_key].files)
                 = UNION {Records(ndt.futures[f].files) : f \in Futures})
    /\ [][ndt.pc # "load_existing" =>
             ndt'.existing_neurodata_types_by_asset_id
                 = ndt.existing_neurodata_types_by_asset_id]_vars
    /\ [][ndt'.all_files # ndt.all_files =>
             /\ ndt.pc = "as_completed"
             /\ Len(ndt'.yielded) = Len(ndt.yielded) + 1
             /\ ndt'.all_files
                   = ndt.all_files \o ndt.futures[ndt'.yielded[Len(ndt'.yielded)]].files]_vars
    /\ [][store' # store => ndt.pc = "upload"]_vars
    /\ [][(\E f \in Futures : ndt'.futures[f] # ndt.futures[f]) =>
             /\ ndt'.all_files = ndt.all_files
             /\ ndt'.yielded = ndt.yielded
             /\ store' = store]_vars

\* an index is uploaded that holds files of both dandisets, the second one's first
C29_Witness ==
    /\ ndt.pc = "done"
    /\ ndt.yielded = <<2, 1>>
    /\ ndt.futures[1].files # <<>>
    /\ ndt.futures[2].files # <<>>
    /\ store[ndt_index_key].files[1].dandiset_id = dandiset_ids[2]

----------------------------------------------------------------------------
(* create_nwb_usage_scripts.py: create_nwb_usage_scripts and process_dandiset *)

\* the archives for the dandisets ids: each is not found or has a listing; the listings
\* hold .nwb assets only (what the glob of process_dandiset leaves out plays no part)
ScriptsArchives(ids) ==
    {arch \in Archives(ids) :
        \A d \in ids : \A n \in DOMAIN arch[d].assets : endswith_nwb(arch[d].assets[n].path)}

\* fetch_all_dandisets(): the first dandisets of the archive, in its order (the ids are
\* names only, so one order stands for all)
ScriptsCatalogs ==
    LET order == <<"000003", "000004", "000019">>
    IN  {SubSeq(order, 1, n) : n \in {m \in 0..MaxDandisets : m <= Len(order)}}

\* the bucket before the run: the .nwb assets of a dandiset have no manifest, a manifest,
\* or a manifest and a usage.py of the present version
ScriptsKinds == {"none", "manifest", "script"}

ScriptsStore(arch, kind) ==
    LET nwb == NwbAssetsOf(arch)
        with(ks) == {a \in nwb : kind[a.dandiset_id] \in ks}
    IN  [k \in {file_key(a) : a \in with({"manifest", "script"})}
                \cup {file_key_usage(a) : a \in with({"script"})} |->
            IF k[3] = "usage.py" THEN usage_script_text(usage_version)
            ELSE LindiJson(GenerationMetadata(AssetDict(k[2], k[1])))]

ScriptsInit ==
    /\ LindiIdle
    /\ ndt = NotRunning
    /\ script = NotRunning
    /\ crawl = NotRunning
    /\ gindex = NotRunning
    /\ head = NotRunning
    /\ pool = NotRunning
    /\ upload = NotRunning
    /\ kerchunk = NotRunning
    /\ meta = NotRunning
    /\ collect = NotRunning
    /\ usage = NotRunning
    /\ \E c \in ScriptsCatalogs :
          /\ archive \in ScriptsArchives({c[n] : n \in DOMAIN c})
          /\ \E kind \in [{c[n] : n \in DOMAIN c} -> ScriptsKinds] :
                store = ScriptsStore(archive, kind)
          /\ scripts = [pc |-> "for_dandiset", dandisets |-> c, dandiset_index |-> 1,
                        attempted |-> <<>>, caught |-> <<>>, asset_index |-> 0,
                        late |-> FALSE]

\* the variables the loop of create_nwb_usage_scripts does not touch
notScripts == <<archive, lindiVars, kerchunk, meta, collect, usage, upload, pool, head,
                gindex, crawl, script, ndt>>

\* the dandiset the loop is at
sc_dandiset_id == scripts.dandisets[scripts.dandiset_index]

\* dandiset.get_assets_by_glob('*.nwb', 'path')
get_assets_by_glob(dandiset_id) ==
    SelectSeq(archive[dandiset_id].assets, LAMBDA asset_obj : endswith_nwb(asset_obj.path))

\* for dandiset_index, dandiset in enumerate(dandisets): try: process_dandiset(dandiset)
SC_ForDandiset ==
    /\ scripts.pc = "for_dandiset"
    /\ scripts' =
         IF scripts.dandiset_index > Len(scripts.dandisets)
         THEN [scripts EXCEPT !.pc = "done"]
         ELSE [scripts EXCEPT !.pc = "process_dandiset", !.late = FALSE,
                              !.attempted = Append(@, sc_dandiset_id)]
    /\ UNCHANGED <<store, notScripts>>

\* process_dandiset up to its loop: a dandiset that is not found makes it return
SC_Navigate ==
    /\ scripts.pc = "process_dandiset"
    /\ scripts' =
         IF ~archive[sc_dandiset_id].found
         THEN [scripts EXCEPT !.pc = "for_dandiset", !.dandiset_index = @ + 1]
         ELSE [scripts EXCEPT !.pc = "for_asset", !.asset_index = 0]
    /\ UNCHANGED <<store, notScripts>>

\* parse_dandi_url or navigate raises (the archive does not answer)
SC_NavigateRaises ==
    /\ scripts.pc = "process_dandiset"
    /\ scripts' = [scripts EXCEPT !.pc = "except"]
    /\ UNCHANGED <<store, notScripts>>

\* the asset process_dandiset is at
sc_asset ==
    AssetDict(get_assets_by_glob(sc_dandiset_id)[scripts.asset_index + 1].identifier,
              sc_dandiset_id)

\* one turn of the loop of process_dandiset: process_asset returns, having found a
\* usage.py of the present version in the bucket, or having downloaded the manifest and
\* uploaded a new usage.py; then the time test. After the last asset process_dandiset
\* returns.
SC_ProcessAsset ==
    /\ scripts.pc = "for_asset"
    /\ IF scripts.asset_index = Len(get_assets_by_glob(sc_dandiset_id))
       THEN /\ scripts' = [scripts EXCEPT !.pc = "for_dandiset", !.dandiset_index = @ + 1]
            /\ UNCHANGED store
       ELSE /\ \/ /\ file_key_usage(sc_asset) \in DOMAIN store
                  /\ startswith(first_line(store[file_key_usage(sc_asset)]),
                                usage_marker(usage_version))
                  /\ UNCHANGED store
               \/ /\ file_key(sc_asset) \in DOMAIN store
                  /\ store' = PutObject(store, file_key_usage(sc_asset),
                                        usage_script_text(usage_version))
            /\ scripts' =
                 IF scripts.late
                 THEN [scripts EXCEPT !.pc = "for_dandiset", !.dandiset_index = @ + 1,
                                      !.asset_index = @ + 1]
                 ELSE [scripts EXCEPT !.asset_index = @ + 1]
    /\ UNCHANGED notScripts

\* process_asset raises (its download of the manifest failed on each try, as it does for
\* a manifest that is not there, its upload gave up, an assertion failed), the bucket
\* being as it was: process_dandiset is left with the exception
SC_AssetRaises ==
    /\ scripts.pc = "for_asset"
    /\ scripts.asset_index < Len(get_assets_by_glob(sc_dandiset_id))
    /\ scripts' = [scripts EXCEPT !.pc = "except"]
    /\ UNCHANGED <<store, notScripts>>

\* the exception leaves create_nwb_usage_scripts, in place of the print
SC_Except_reraising ==
    /\ scripts.pc = "except"
    /\ scripts' = [scripts EXCEPT !.pc = "raised", !.caught = Append(@, sc_dandiset_id)]
    /\ UNCHANGED <<store, notScripts>>

\* except Exception as e: print(...); the loop goes on with the next dandiset
SC_Except ==
    /\ scripts.pc = "except"
    /\ scripts' = [scripts EXCEPT !.pc = "for_dandiset", !.dandiset_index = @ + 1,
                                  !.caught = Append(@, sc_dandiset_id)]
    /\ UNCHANGED <<store, notScripts>>

\* more than max_time_sec_per_dandiset have passed since process_dandiset was entered
SC_TimePasses ==
    /\ scripts.pc \in {"process_dandiset", "for_asset"}
    /\ ~scripts.late
    /\ scripts' = [scripts EXCEPT !.late = TRUE]
    /\ UNCHANGED <<store, notScripts>>

ScriptsNext ==
    \/ SC_ForDandiset
    \/ SC_Navigate
    \/ SC_NavigateRaises
    \/ SC_ProcessAsset
    \/ SC_AssetRaises
    \/ SC_Except
    \/ SC_TimePasses

\* the interpreter goes on as long as there is a statement to run
SpecScripts == ScriptsInit /\ [][ScriptsNext]_vars /\ WF_vars(ScriptsNext)

\* C30: an exception raised while a dandiset is processed, in process_dandiset itself or
\* in process_asset for one of its assets, is caught in the loop of
\* create_nwb_usage_scripts, which goes on with the next dandiset; the dandisets
\* attempted are at every moment the first ones of the catalog, in its order and once
\* each, and in the end they are the whole catalog.
C30_ErrorIsolation ==
    /\ [](/\ Len(scripts.attempted) <= Len(scripts.dandisets)
          /\ scripts.attempted = SubSeq(scripts.dandisets, 1, Len(scripts.attempted))
          /\ scripts.pc = "done" => scripts.attempted = scripts.dandisets)
    /\ [][scripts.pc = "except" =>
             /\ scripts'.pc = "for_dandiset"
             /\ scripts'.dandiset_index = scripts.dandiset_index + 1
             /\ scripts'.attempted = scripts.attempted]_vars
    /\ [][scripts'.attempted # scripts.attempted =>
             /\ scripts.pc = "for_dandiset"
             /\ scripts'.attempted = Append(scripts.attempted, sc_dandiset_id)
             /\ Len(scripts'.attempted) = scripts.dandiset_index]_vars
    /\ <>(scripts.pc = "done")

\* the first of two dandisets raised, and the second was processed, one asset at least
C30_Witness ==
    /\ scripts.pc = "done"
    /\ Len(scripts.dandisets) = 2
    /\ scripts.caught = <<scripts.dandisets[1]>>
    /\ scripts.attempted = scripts.dandisets
    /\ archive[scripts.dandisets[1]].found
    /\ scripts.asset_index > 0

====
